---- MODULE Spec2Model ----
\* Key pool of torn-key-pool: the api_keys table, the allocation queries of
\* PgKeyPoolStorage (acquire_key, acquire_many_keys), their transaction/retry
\* protocol under repeatable read, and the bulk executor that pairs requests
\* with the acquired keys.
EXTENDS Integers, Sequences, FiniteSets, TLC

\* ---------------------------------------------------------------- bounds
\* Number of rows (ids 1..NumKeys) the api_keys table can hold.
NumKeys == 3
\* The per-key-per-minute limit the storage is constructed with.
Limit == 2
\* Largest `number` passed to acquire_many_keys / largest batch of requests.
MaxNumber == 3
\* Last clock value; the clock counts half minutes.
MaxTime == 2
\* Number of concurrently running storage calls.
NumProcs == 2
\* Futures buffer_unordered keeps in flight (25 in the source, scaled to the
\* batches of the model).
MaxInFlight == 2

\* ------------------------------------------------------------- constants
\* Clock ticks per wall-clock minute (date_trunc('minute', now())).
TicksPerMinute == 2
\* cooldown / flag column holding SQL NULL.
NULL == -1
\* 'infinity'::timestamptz.
Infinity == 1000000

KeyIds == 1..NumKeys
Procs == 1..NumProcs

Min(a, b) == IF a <= b THEN a ELSE b

\* date_trunc('minute', t)
TruncMinuteNone(t) == t

TruncMinute(t) == t - (t % TicksPerMinute)

\* ------------------------------------------------------ domains, selectors
\* The Domain enum of the storage tests: All, Guild{id}, User{id}.
Domains == {"All", "Guild7", "User1"}

\* KeyDomain::fallback as an Option: a sequence of length 0 or 1.
DomainFallback(d) == IF d = "Guild7" THEN <<"All">> ELSE <<>>

Sel(t, ds, v) == [type |-> t, ds |-> ds, v |-> v]
SelKey(s) == Sel("Key", <<>>, s)
SelId(i) == Sel("Id", <<>>, i)
SelUserId(u) == Sel("UserId", <<>>, u)
SelHas(ds) == Sel("Has", ds, 0)
SelOneOf(ds) == Sel("OneOf", ds, 0)
NoSel == Sel("None", <<>>, 0)

\* domains.iter().filter_map(|d| d.fallback()).collect()
RECURSIVE FilterMapFallbackKeeps(_)
FilterMapFallbackKeeps(ds) ==
    IF ds = <<>> THEN <<>>
    ELSE (IF DomainFallback(Head(ds)) = <<>> THEN <<Head(ds)>> ELSE DomainFallback(Head(ds)))
         \o FilterMapFallbackKeeps(Tail(ds))

RECURSIVE FilterMapFallback(_)
FilterMapFallback(ds) ==
    IF ds = <<>> THEN <<>>
    ELSE DomainFallback(Head(ds)) \o FilterMapFallback(Tail(ds))

\* KeySelector::fallback; NoSel stands for Option::None.
SelectorFallbackNever(sel) == NoSel

SelectorFallbackBroadens(sel) ==
    IF sel.type \in {"Key", "UserId", "Id"} THEN Sel("Has", <<>>, 0)
    ELSE LET fallbacks == FilterMapFallback(sel.ds)
         IN IF fallbacks = <<>> THEN NoSel ELSE Sel(sel.type, fallbacks, 0)

SelectorFallback(sel) ==
    IF sel.type \in {"Key", "UserId", "Id"} THEN NoSel
    ELSE LET fallbacks == FilterMapFallback(sel.ds)
         IN IF fallbacks = <<>> THEN NoSel ELSE Sel(sel.type, fallbacks, 0)

\* ------------------------------------------------------------- the table
\* One row of api_keys; a row with present = FALSE does not exist.
Row(p, u, s, n, ds, lu, cd, f) ==
    [present |-> p, user_id |-> u, key |-> s, uses |-> n, domains |-> ds,
     last_used |-> lu, cooldown |-> cd, flag |-> f]

NoRow == Row(FALSE, 0, 0, 0, <<>>, 0, NULL, NULL)

\* jsonb containment of one element: domains @> [d]
Contains(domains, d) == \E i \in DOMAIN domains : domains[i] = d

\* build_predicate: the WHERE clause a selector stands for.
Matches(id, row, sel) ==
    CASE sel.type = "Id" -> id = sel.v
      [] sel.type = "UserId" -> row.user_id = sel.v
      [] sel.type = "Key" -> row.key = sel.v
      [] sel.type = "Has" -> \A i \in DOMAIN sel.ds : Contains(row.domains, sel.ds[i])
      [] sel.type = "OneOf" -> \E i \in DOMAIN sel.ds : Contains(row.domains, sel.ds[i])
      [] OTHER -> FALSE

\* The uses column both branches of the union select: 0 for a row last used
\* before the current minute, the stored counter otherwise.
EffUsesStored(row, now) == row.uses

EffUses(row, now) == IF row.last_used < TruncMinute(now) THEN 0 ELSE row.uses

\* (cooldown is null or now() >= cooldown)
CooldownOverStrict(row, now) == row.cooldown = NULL \/ now > row.cooldown

CooldownOver(row, now) == row.cooldown = NULL \/ now >= row.cooldown

\* The rows both allocation queries range over.
Candidates(d, sel, now) ==
    {k \in KeyIds : d[k].present /\ CooldownOver(d[k], now) /\ Matches(k, d[k], sel)}

MinUses(d, C, now) ==
    CHOOSE m \in 0..Limit + 1 :
        /\ \E k \in C : EffUses(d[k], now) = m
        /\ \A k \in C : EffUses(d[k], now) >= m

\* ------------------------------------------------------------ acquire_key
\* The CTE `key` of acquire_key: the rows "order by uses asc limit 1" may
\* yield (ties are resolved by the backend), as (id, uses) pairs.
KeyCteAny(d, sel, now) ==
    {[id |-> k, uses |-> EffUses(d[k], now)] : k \in Candidates(d, sel, now)}

KeyCteLowestId(d, sel, now) ==
    LET C == Candidates(d, sel, now)
    IN IF C = {} THEN {}
       ELSE {[id |-> k, uses |-> EffUses(d[k], now)] :
                k \in {c \in C : \A j \in C : c <= j}}

KeyCte(d, sel, now) ==
    LET C == Candidates(d, sel, now)
    IN IF C = {} THEN {}
       ELSE {[id |-> k, uses |-> EffUses(d[k], now)] :
                k \in {c \in C : EffUses(d[c], now) = MinUses(d, C, now)}}

\* "... from key where api_keys.id = key.id and key.uses < $limit"
UnderLimitAlways(key) == key.uses <= Limit

UnderLimit(key) == key.uses < Limit

\* The SET list shared by both UPDATE statements, applied to one row.
ChargedNothing(row, uses, now) ==
    [row EXCEPT !.cooldown = NULL, !.flag = NULL, !.last_used = now]

Charged(row, uses, now) ==
    [row EXCEPT !.uses = uses, !.cooldown = NULL, !.flag = NULL, !.last_used = now]

\* The rows an attempt of acquire_key writes and the key it returns:
\* writes is a sequence of (id, uses) pairs, keys the returned ids.
OneAttempts(d, sel, now) ==
    LET hits == {k \in KeyCte(d, sel, now) : UnderLimit(k)}
    IN IF hits = {}
       THEN {[some |-> FALSE, writes |-> <<>>, keys |-> <<>>]}
       ELSE {[some |-> TRUE,
              writes |-> <<[id |-> k.id, uses |-> k.uses + 1]>>,
              keys |-> <<k.id>>] : k \in hits}

\* The table after the UPDATE of an attempt.
ApplyWrites(d, writes, now) ==
    [k \in KeyIds |->
        IF \E i \in DOMAIN writes : writes[i].id = k
        THEN LET i == CHOOSE j \in DOMAIN writes : writes[j].id = k
             IN Charged(d[k], writes[i].uses, now)
        ELSE d[k]]

\* ------------------------------------------------------- acquire_many_keys
\* All orderings of a set as sequences.
Orderings(S) ==
    {f \in [1..Cardinality(S) -> S] : \A i, j \in 1..Cardinality(S) : i # j => f[i] # f[j]}

\* Number of rows the bulk query fetches: "order by uses limit $limit".
FetchCount(n) == Min(n, Limit)

\* The vector `keys` after fetch_all and sort_unstable_by: the FetchCount
\* least-used candidates as (id, uses) pairs in ascending order of uses
\* (which of several equally used rows come first is the backend's choice).
FetchMany(d, sel, now) ==
    LET C == Candidates(d, sel, now)
        m == FetchCount(Cardinality(C))
        lowest == {T \in SUBSET C :
                      /\ Cardinality(T) = m
                      /\ \A a \in T, b \in C \ T : EffUses(d[a], now) <= EffUses(d[b], now)}
        sorted(f) == \A i, j \in DOMAIN f :
                        i < j => EffUses(d[f[i]], now) <= EffUses(d[f[j]], now)
    IN {[i \in DOMAIN f |-> [id |-> f[i], uses |-> EffUses(d[f[i]], now)]] :
           f \in {g \in UNION {Orderings(T) : T \in lowest} : sorted(g)}}

\* std::iter::repeat(key).take(using)
Repeat(x, n) == [i \in 1..n |-> x]

\* "for key in rest": every key but the last is raised towards max.uses, the
\* most used one, as far as the still missing number of keys allows.
RECURSIVE LevelLoop(_, _, _, _)
LevelLoop(keys, i, number, result) ==
    IF i > Len(keys) - 1 THEN [keys |-> keys, result |-> result]
    ELSE LET available == keys[Len(keys)].uses - keys[i].uses
             using == Min(available, number - Len(result))
             keys2 == [keys EXCEPT ![i].uses = @ + using]
             result2 == result \o Repeat(keys[i].id, using)
         IN IF Len(result2) = number
            THEN [keys |-> keys2, result |-> result2]
            ELSE LevelLoop(keys2, i + 1, number, result2)

\* "while result.len() < number": whole rounds over the levelled keys until
\* the first key is at the limit.
RECURSIVE RoundLoop(_, _, _)
RoundLoop(keys, number, result) ==
    IF Len(result) >= number \/ keys[1].uses = Limit
    THEN [keys |-> keys, result |-> result]
    ELSE LET take == Min(Len(keys), number - Len(result))
             keys2 == [i \in DOMAIN keys |->
                          IF i <= take THEN [keys[i] EXCEPT !.uses = @ + 1] ELSE keys[i]]
             result2 == result \o [i \in 1..take |-> keys[i].id]
         IN RoundLoop(keys2, number, result2)

\* The assignment of `number` slots to the fetched keys.
DistributeLevelled(keys, number) ==
    LET levelled == LevelLoop(keys, 1, number, <<>>)
    IN [keys |-> levelled.keys,
        result |-> RoundLoop(levelled.keys, number, levelled.result).result]

Distribute(keys, number) ==
    LET levelled == LevelLoop(keys, 1, number, <<>>)
    IN RoundLoop(levelled.keys, number, levelled.result)

\* The rows an attempt of acquire_many_keys writes (every fetched key) and
\* the keys it returns; some = FALSE when the query fetched no row.
ManyAttemptsFallsBack(d, sel, number, now) ==
    LET fetched == FetchMany(d, sel, now)
    IN IF Candidates(d, sel, now) = {}
       THEN {[some |-> FALSE, writes |-> <<>>, keys |-> <<>>]}
       ELSE {[some |-> Distribute(keys, number).result # <<>>,
              writes |-> Distribute(keys, number).keys,
              keys |-> Distribute(keys, number).result] : keys \in fetched}

ManyAttempts(d, sel, number, now) ==
    LET fetched == FetchMany(d, sel, now)
    IN IF Candidates(d, sel, now) = {}
       THEN {[some |-> FALSE, writes |-> <<>>, keys |-> <<>>]}
       ELSE {[some |-> TRUE,
              writes |-> Distribute(keys, number).keys,
              keys |-> Distribute(keys, number).result] : keys \in fetched}

\* One attempt of either call.
Attempts(d, kind, sel, number, now) ==
    IF kind = "one" THEN OneAttempts(d, sel, now) ELSE ManyAttempts(d, sel, number, now)

\* ------------------------------------------------ results of a storage call
RetNone == [status |-> "none", keys |-> <<>>, sel |-> NoSel]
RetOk(keys) == [status |-> "ok", keys |-> keys, sel |-> NoSel]
RetUnavailable(sel) == [status |-> "unavailable", keys |-> <<>>, sel |-> sel]
RetPg == [status |-> "pg", keys |-> <<>>, sel |-> NoSel]

\* A whole call run without interference: attempts along the fallback chain
\* until one returns keys or the chain ends. The set of possible
\* (table, result) pairs.
RECURSIVE AcquireEither(_, _, _, _, _)
AcquireEither(d, kind, sel, number, now) ==
    UNION {IF a.some
           THEN {[db |-> ApplyWrites(d, a.writes, now), ret |-> RetOk(a.keys)]}
           ELSE IF SelectorFallback(sel) = NoSel
                THEN {[db |-> d, ret |-> RetUnavailable(sel)]}
                ELSE AcquireEither(d, kind, SelectorFallback(sel), number, now)
           : a \in Attempts(d, kind, sel, number, now)
                    \cup (IF SelectorFallback(sel) = NoSel THEN {}
                          ELSE Attempts(d, kind, SelectorFallback(sel), number, now))}

RECURSIVE AcquireNamesFirst(_, _, _, _, _)
AcquireNamesFirst(d, kind, sel, number, now) ==
    UNION {IF a.some
           THEN {[db |-> ApplyWrites(d, a.writes, now), ret |-> RetOk(a.keys)]}
           ELSE IF SelectorFallback(sel) = NoSel
                THEN {[db |-> d, ret |-> RetUnavailable(sel)]}
                ELSE {IF o.ret.status = "unavailable"
                      THEN [o EXCEPT !.ret = RetUnavailable(sel)] ELSE o :
                         o \in AcquireNamesFirst(d, kind, SelectorFallback(sel), number, now)}
           : a \in Attempts(d, kind, sel, number, now)}

RECURSIVE Acquire(_, _, _, _, _)
Acquire(d, kind, sel, number, now) ==
    UNION {IF a.some
           THEN {[db |-> ApplyWrites(d, a.writes, now), ret |-> RetOk(a.keys)]}
           ELSE IF SelectorFallback(sel) = NoSel
                THEN {[db |-> d, ret |-> RetUnavailable(sel)]}
                ELSE Acquire(d, kind, SelectorFallback(sel), number, now)
           : a \in Attempts(d, kind, sel, number, now)}

\* ------------------------------------------------------------------ state
VARIABLES
    db,        \* the committed api_keys table: id -> row
    clock,     \* wall-clock time in ticks
    pre,       \* the table before the last completed storage call
    last,      \* the last completed storage call and its result
    pc,        \* per concurrent call: its position in acquire_key/acquire_many_keys
    call,      \* per concurrent call: kind, requested selector, current selector, number
    txnow,     \* per concurrent call: now() of its open transaction
    att,       \* per concurrent call: what its attempt read, decided and wrote
    stale,     \* per concurrent call: rows committed by others since its snapshot
    out,       \* per concurrent call: what it returned
    retries,   \* per concurrent call: conflicts absorbed so far
    err,       \* per concurrent call: the error its last attempt ended with
    given,     \* per key: how often concurrent calls have handed it out
    bpc,       \* execute_many: not called, awaiting its requests, or returned
    bcall,     \* execute_many: its selector, its ids and how acquire_many_keys ended
    task,      \* execute_many: per id, the request's state, key and result
    req,       \* execute / execute_request: the request's position, key and result
    wire,      \* the pre-request hook: its runs on the request, and what was sent
    chain,     \* a storage call followed along its fallback chain
    sched      \* throttled bulk execution: dispatch times, requests in flight, results

storeVars == <<db, clock, pre, last>>
txVars == <<pc, call, txnow, att, stale, out, retries, err, given>>
bulkVars == <<bpc, bcall, task>>
execVars == <<req>>
sideVars == <<wire, chain, sched>>
vars == <<db, clock, pre, last, pc, call, txnow, att, stale, out, retries, err, given,
          bpc, bcall, task, req, wire, chain, sched>>

NoAttempt == [some |-> FALSE, writes |-> <<>>, keys |-> <<>>]
NoCall == [kind |-> "none", req |-> NoSel, sel |-> NoSel, number |-> 0]
NoOp == [op |-> "none", sel |-> NoSel, number |-> 0, now |-> 0, ret |-> RetNone, proc |-> 0]

\* The ids of a batch of requests.
Ids == 1..MaxNumber
NoBulk == [sel |-> NoSel, n |-> 0, acquired |-> FALSE]
NoTask == [st |-> "none", key |-> 0, res |-> "none"]
\* Option::None / Ok(()) of a post-response hook.
NoAction == [act |-> "none", domain |-> "none"]
\* No request submitted to execute / execute_request: st is the request's
\* position, key the key of the current turn of the loop, failed and cause the
\* key of the previous turn and what ended it, ev the last step taken, code
\* and act the last API error code and hook action, res what was returned.
NoReq ==
    [st |-> "idle", via |-> "none", sel |-> NoSel, hooks |-> FALSE, key |-> 0, failed |-> 0,
     cause |-> "none", turns |-> 0, sends |-> 0, ev |-> "none", code |-> 0,
     act |-> NoAction, res |-> "none"]

\* No request submitted: reg is whether a pre-request hook is registered for
\* the request's category, runs how often it ran on the request, fresh
\* whether it ran since the last send, skipped whether a send went out that
\* the hook did not run before, bare whether a send went out with a request
\* the hook never ran on.
NoWire == [reg |-> FALSE, runs |-> 0, fresh |-> FALSE, skipped |-> FALSE, bare |-> FALSE]
\* No storage call is being followed: st is the call's position, rel the
\* fallback relation of the domain type, sel the selector of the current
\* (possibly recursive) call, now the now() of its open transaction.
NoChain ==
    [st |-> "idle", rel |-> "none", kind |-> "none", req |-> NoSel, sel |-> NoSel,
     number |-> 0, now |-> 0, ret |-> RetNone]
\* No throttled batch submitted: n is the number of its requests, distance
\* the configured spacing in ticks, next the request the stream yields next,
\* lastAt the time the stream yielded the last one, flight the key of every
\* request in flight (0: not in flight), results how many results each
\* request has produced.
NoSched ==
    [st |-> "idle", sel |-> NoSel, n |-> 0, distance |-> 0, next |-> 1, lastAt |-> NULL,
     flight |-> [i \in Ids |-> 0], results |-> [i \in Ids |-> 0]]

TxIdle ==
    /\ pc = [p \in Procs |-> "idle"]
    /\ call = [p \in Procs |-> NoCall]
    /\ txnow = [p \in Procs |-> 0]
    /\ att = [p \in Procs |-> NoAttempt]
    /\ stale = [p \in Procs |-> {}]
    /\ out = [p \in Procs |-> RetNone]
    /\ retries = [p \in Procs |-> 0]
    /\ err = [p \in Procs |-> "none"]
    /\ given = [k \in KeyIds |-> 0]
    /\ bpc = "idle"
    /\ bcall = NoBulk
    /\ task = [i \in Ids |-> NoTask]
    /\ req = NoReq
    /\ wire = NoWire
    /\ chain = NoChain
    /\ sched = NoSched

\* Selectors the calls are made with.
SelectorInputs ==
    {SelHas(<<"All">>), SelHas(<<"Guild7">>), SelOneOf(<<"Guild7", "User1">>),
     SelUserId(1), SelKey(1)} \cup {SelId(k) : k \in KeyIds}

\* Domains the stored keys carry: either every key has All, or key 1 belongs
\* to a guild, key 3 to a user and the others have All.
InitDomains(mixed, k) ==
    IF ~mixed THEN <<"All">>
    ELSE IF k = 1 THEN <<"Guild7">> ELSE IF k = 3 THEN <<"User1">> ELSE <<"All">>

\* What flag_key leaves in (cooldown, flag) of a key flagged at time 0:
\* nothing, a rate-limited key 1 (code 5), an invalid key 2 (code 2).
InitHealth(k, limited, invalid) ==
    IF k = 1 /\ limited THEN <<TicksPerMinute, 5>>
    ELSE IF k = 2 /\ invalid THEN <<Infinity, 2>>
    ELSE <<NULL, NULL>>

\* Tables as store_key and flag_key leave them: unused keys, key 1 possibly
\* missing.
InitTables ==
    {[k \in KeyIds |->
        IF k = 1 /\ ~has1 THEN NoRow
        ELSE Row(TRUE, IF k <= 2 THEN 1 ELSE 2, k, 0, InitDomains(mixed, k), 0,
                 InitHealth(k, limited, invalid)[1], InitHealth(k, limited, invalid)[2])] :
        mixed \in BOOLEAN, has1 \in BOOLEAN, limited \in BOOLEAN, invalid \in BOOLEAN}

Init ==
    /\ db \in InitTables
    /\ clock = 0
    /\ pre = db
    /\ last = NoOp
    /\ TxIdle

\* acquire_key(selector), run to its return without interference.
AcquireKey(sel) ==
    /\ last.op = "none"
    /\ \E o \in Acquire(db, "one", sel, 0, clock) :
        /\ db' = o.db
        /\ pre' = db
        /\ last' = [op |-> "acquire_key", sel |-> sel, number |-> 0, now |-> clock,
                    ret |-> o.ret, proc |-> 0]
        /\ UNCHANGED <<clock, txVars, bulkVars, execVars, sideVars>>

\* acquire_many_keys(selector, number), run to its return without interference.
AcquireManyKeys(sel, number) ==
    /\ last.op = "none"
    /\ \E o \in Acquire(db, "many", sel, number, clock) :
        /\ db' = o.db
        /\ pre' = db
        /\ last' = [op |-> "acquire_many_keys", sel |-> sel, number |-> number,
                    now |-> clock, ret |-> o.ret, proc |-> 0]
        /\ UNCHANGED <<clock, txVars, bulkVars, execVars, sideVars>>

\* The caller takes the result of its call and is ready for the next one.
Return ==
    /\ last.op # "none"
    /\ last' = NoOp
    /\ pre' = db
    /\ UNCHANGED <<db, clock, txVars, bulkVars, execVars, sideVars>>

\* Wall-clock time passes.
Tick ==
    /\ last.op = "none"
    /\ clock < MaxTime
    /\ clock' = clock + 1
    /\ UNCHANGED <<db, pre, last, txVars, bulkVars, execVars, sideVars>>

Next ==
    \/ \E sel \in SelectorInputs : AcquireKey(sel)
    \/ \E sel \in SelectorInputs, number \in 0..MaxNumber : AcquireManyKeys(sel, number)
    \/ Return
    \/ Tick

\* Storage calls issued one after the other.
Spec == Init /\ [][Next]_vars

\* ----------------------------------------- concurrent calls, transactions
\* Selectors the concurrent calls are made with.
TxSelectors == {SelHas(<<"All">>), SelHas(<<"Guild7">>)}

\* Errors an attempt can end with: SQLSTATE 40001 (serialization failure),
\* 40P01 (deadlock detected), or an error that is no database error.
ErrorKinds == {"40001", "40P01", "io"}

\* The Err arm of `match attempt`: pg_error.code() == "40001".
IsConflictNever(e) == FALSE

IsConflictOrDeadlock(e) == e \in {"40001", "40P01"}

IsConflict(e) == e = "40001"

\* What dropping an uncommitted transaction leaves of the rows it wrote.
RolledBack(d, writes, now) == d

\* Under repeatable read an UPDATE fails on a row that another transaction
\* changed and committed after this transaction's snapshot.
ConflictsNever(targets, changed) == FALSE

Conflicts(targets, changed) == targets \cap changed # {}

Targets(writes) == {writes[i].id : i \in DOMAIN writes}

\* Rows on which other transactions hold an uncommitted update.
LockedByOthers(p) ==
    UNION {Targets(att[q].writes) : q \in {r \in Procs \ {p} : pc[r] = "written"}}

\* The rows a multi-row UPDATE has written when it reaches a changed row.
WrittenBefore(writes, changed) ==
    LET first == CHOOSE i \in DOMAIN writes :
                    /\ writes[i].id \in changed
                    /\ \A j \in DOMAIN writes : writes[j].id \in changed => i <= j
    IN SubSeq(writes, 1, first - 1)

\* A client calls acquire_key (kind "one") or acquire_many_keys ("many").
Call(p, kind, sel, number) ==
    /\ pc[p] = "idle"
    /\ pc' = [pc EXCEPT ![p] = "begin"]
    /\ call' = [call EXCEPT ![p] = [kind |-> kind, req |-> sel, sel |-> sel,
                                    number |-> number]]
    /\ UNCHANGED <<storeVars, txnow, att, stale, out, retries, err, given, bulkVars, execVars, sideVars>>

\* self.pool.begin(): the transaction starts; now() is its start time.
Begin(p) ==
    /\ pc[p] = "begin"
    /\ pc' = [pc EXCEPT ![p] = "open"]
    /\ txnow' = [txnow EXCEPT ![p] = clock]
    /\ UNCHANGED <<storeVars, call, att, stale, out, retries, err, given, bulkVars, execVars, sideVars>>

\* The first query takes the snapshot and reads it: the CTE of acquire_key, or
\* the fetch of acquire_many_keys followed by the distribution over the keys.
Select(p) ==
    /\ pc[p] = "open"
    /\ \E a \in Attempts(db, call[p].kind, call[p].sel, call[p].number, txnow[p]) :
          att' = [att EXCEPT ![p] = a]
    /\ pc' = [pc EXCEPT ![p] = "read"]
    /\ stale' = [stale EXCEPT ![p] = {}]
    /\ UNCHANGED <<storeVars, call, txnow, out, retries, err, given, bulkVars, execVars, sideVars>>

\* The UPDATE reaches its rows: it waits for rows locked by others, fails with
\* 40001 on a row changed since the snapshot, and otherwise writes and holds
\* the rows until the transaction ends.
Write(p) ==
    /\ pc[p] = "read"
    /\ att[p].some
    /\ Targets(att[p].writes) \cap LockedByOthers(p) = {}
    /\ IF Conflicts(Targets(att[p].writes), stale[p])
       THEN /\ pc' = [pc EXCEPT ![p] = "failed"]
            /\ err' = [err EXCEPT ![p] = "40001"]
            /\ db' = RolledBack(db, WrittenBefore(att[p].writes, stale[p]), txnow[p])
            /\ att' = [att EXCEPT ![p] = NoAttempt]
            /\ txnow' = [txnow EXCEPT ![p] = 0]
            /\ stale' = [stale EXCEPT ![p] = {}]
       ELSE /\ pc' = [pc EXCEPT ![p] = "written"]
            /\ UNCHANGED <<db, err, att, txnow, stale>>
    /\ UNCHANGED <<clock, pre, last, call, out, retries, given, bulkVars, execVars, sideVars>>

\* tx.commit() after the UPDATE, and the Ok(Some(result)) arm: the rows become
\* visible and the call returns its keys.
Commit(p) ==
    /\ pc[p] = "written"
    /\ db' = ApplyWrites(db, att[p].writes, txnow[p])
    /\ stale' = [q \in Procs |->
                    IF q # p /\ pc[q] = "read"
                    THEN stale[q] \cup Targets(att[p].writes) ELSE stale[q]]
    /\ given' = [k \in KeyIds |->
                    given[k] + Cardinality({i \in DOMAIN att[p].keys : att[p].keys[i] = k})]
    /\ out' = [out EXCEPT ![p] = RetOk(att[p].keys)]
    /\ pc' = [pc EXCEPT ![p] = "done"]
    /\ att' = [att EXCEPT ![p] = NoAttempt]
    /\ txnow' = [txnow EXCEPT ![p] = 0]
    /\ UNCHANGED <<clock, pre, last, call, retries, err, bulkVars, execVars, sideVars>>

\* tx.commit() of an attempt that found nothing, and the Ok(None) arm: the
\* call starts over with the selector's fallback or fails with Unavailable.
CommitNone(p) ==
    /\ pc[p] = "read"
    /\ ~att[p].some
    /\ IF SelectorFallback(call[p].sel) = NoSel
       THEN /\ out' = [out EXCEPT ![p] = RetUnavailable(call[p].sel)]
            /\ pc' = [pc EXCEPT ![p] = "done"]
            /\ UNCHANGED call
       ELSE /\ call' = [call EXCEPT ![p].sel = SelectorFallback(call[p].sel)]
            /\ pc' = [pc EXCEPT ![p] = "begin"]
            /\ UNCHANGED out
    /\ att' = [att EXCEPT ![p] = NoAttempt]
    /\ txnow' = [txnow EXCEPT ![p] = 0]
    /\ stale' = [stale EXCEPT ![p] = {}]
    /\ UNCHANGED <<storeVars, retries, err, given, bulkVars, execVars, sideVars>>

\* A statement or the commit fails for another reason than a conflict; the
\* transaction is dropped with whatever it wrote.
BackendFail(p, e) ==
    /\ pc[p] \in {"begin", "open", "read", "written"}
    /\ e # "40001"
    /\ db' = RolledBack(db, IF pc[p] = "written" THEN att[p].writes ELSE <<>>, txnow[p])
    /\ pc' = [pc EXCEPT ![p] = "failed"]
    /\ err' = [err EXCEPT ![p] = e]
    /\ att' = [att EXCEPT ![p] = NoAttempt]
    /\ txnow' = [txnow EXCEPT ![p] = 0]
    /\ stale' = [stale EXCEPT ![p] = {}]
    /\ UNCHANGED <<clock, pre, last, call, out, retries, given, bulkVars, execVars, sideVars>>

\* The Err arm of `match attempt`: a conflict is slept on and the loop runs
\* again, any other error is returned.
HandleErrorHangs(p) ==
    /\ pc[p] = "failed"
    /\ ~IsConflict(err[p])
    /\ pc' = [pc EXCEPT ![p] = "done"]
    /\ out' = [out EXCEPT ![p] = RetPg]
    /\ err' = [err EXCEPT ![p] = "none"]
    /\ UNCHANGED <<storeVars, call, txnow, att, stale, retries, given, bulkVars, execVars, sideVars>>

HandleError(p) ==
    /\ pc[p] = "failed"
    /\ IF IsConflict(err[p])
       THEN /\ pc' = [pc EXCEPT ![p] = "begin"]
            /\ retries' = [retries EXCEPT ![p] = @ + 1]
            /\ UNCHANGED out
       ELSE /\ pc' = [pc EXCEPT ![p] = "done"]
            /\ out' = [out EXCEPT ![p] = RetPg]
            /\ UNCHANGED retries
    /\ err' = [err EXCEPT ![p] = "none"]
    /\ UNCHANGED <<storeVars, call, txnow, att, stale, given, bulkVars, execVars, sideVars>>

\* Wall-clock time passes while calls are running.
TxTick ==
    /\ clock < MaxTime
    /\ clock' = clock + 1
    /\ UNCHANGED <<db, pre, last, txVars, bulkVars, execVars, sideVars>>

\* Unused keys without cooldown; key 1 exists.
TxTables ==
    {[k \in KeyIds |->
        Row(TRUE, IF k <= 2 THEN 1 ELSE 2, k, 0, InitDomains(mixed, k), 0, NULL, NULL)] :
        mixed \in BOOLEAN}

InitTx ==
    /\ db \in TxTables
    /\ clock = 0
    /\ pre = db
    /\ last = NoOp
    /\ TxIdle

NextTx ==
    \/ \E p \in Procs, sel \in TxSelectors : Call(p, "one", sel, 0)
    \/ \E p \in Procs, sel \in TxSelectors, number \in 1..MaxNumber : Call(p, "many", sel, number)
    \/ \E p \in Procs : Begin(p)
    \/ \E p \in Procs : Select(p)
    \/ \E p \in Procs : Write(p)
    \/ \E p \in Procs : Commit(p)
    \/ \E p \in Procs : CommitNone(p)
    \/ \E p \in Procs, e \in ErrorKinds : BackendFail(p, e)
    \/ \E p \in Procs : HandleError(p)
    \/ TxTick

\* Storage calls running concurrently, each in its own transactions.
SpecTx == InitTx /\ [][NextTx]_vars

\* ------------------------------------------- repeated calls on equal keys
\* The selector of uses_spread and test_concurrent_spread.
SpreadSelector == SelHas(<<"All">>)

\* Tables of those tests: the first m keys carry All and stand at the same
\* usage in the current minute, the others carry another domain.
SpreadTables ==
    {[k \in KeyIds |->
        Row(TRUE, 1, k, u, IF k <= m THEN <<"All">> ELSE <<"User1">>, 0, NULL, NULL)] :
        m \in 1..NumKeys, u \in 0..Limit - 1}

\* A client whose call has returned is free to call again.
Again(p) ==
    /\ pc[p] = "done"
    /\ pc' = [pc EXCEPT ![p] = "idle"]
    /\ call' = [call EXCEPT ![p] = NoCall]
    /\ out' = [out EXCEPT ![p] = RetNone]
    /\ retries' = [retries EXCEPT ![p] = 0]
    /\ UNCHANGED <<storeVars, txnow, att, stale, err, given, bulkVars, execVars, sideVars>>

InitSpread ==
    /\ db \in SpreadTables
    /\ clock = 0
    /\ pre = db
    /\ last = NoOp
    /\ TxIdle

NextSpread ==
    \/ \E p \in Procs : Call(p, "one", SpreadSelector, 0)
    \/ \E p \in Procs : Begin(p)
    \/ \E p \in Procs : Select(p)
    \/ \E p \in Procs : Write(p)
    \/ \E p \in Procs : Commit(p)
    \/ \E p \in Procs : CommitNone(p)
    \/ \E p \in Procs, e \in ErrorKinds : BackendFail(p, e)
    \/ \E p \in Procs : HandleError(p)
    \/ \E p \in Procs : Again(p)

\* Clients calling acquire_key over and over, one after another or at once,
\* all within one minute.
SpecSpread == InitSpread /\ [][NextSpread]_vars

\* -------------------------------------------------- the pre-request hook
\* "if let Some(hook) = self.options.hooks_before.get(..) { (concrete.body)(&mut
\* request, &self.selector) }": the hook runs on the request if one is
\* registered.
RunHookBefore(w) ==
    IF w.reg THEN [w EXCEPT !.runs = @ + 1, !.fresh = TRUE] ELSE w

\* request.url(key.value(), id) and client.request(url): the request goes
\* out as it is.
SendUrl(w) ==
    [w EXCEPT !.skipped = @ \/ ~w.fresh, !.bare = @ \/ w.runs = 0, !.fresh = FALSE]

\* ------------------------------------------------- execute_many, flag_key
\* Seconds-based intervals of flag_key in clock ticks.
TicksPerDay == 1440 * TicksPerMinute
TruncDay(t) == t - (t % TicksPerDay)

\* Error codes of the API the responses are drawn from: a key that is retired
\* (2), a key that is rate limited (5), a failure that is not the key's (8),
\* and a code flag_key does not know (6).
Codes == {2, 5, 8, 6}

\* Selectors the bulk execution is made with.
BulkSelectors == {SelHas(<<"All">>), SelHas(<<"Guild7">>), SelId(1)}

\* flag_key(key, code): the table it leaves and the boolean it returns.
FlagKeyDrops(d, id, code, now) == [db |-> d, retry |-> code \in {2, 5, 10, 13, 14}]

FlagKeyRefunds(d, id, code, now) ==
    [db |-> [d EXCEPT ![id].uses = IF @ > 0 THEN @ - 1 ELSE 0],
     retry |-> code \in {2, 5, 10, 13, 14}]

FlagKey(d, id, code, now) ==
    CASE code \in {2, 10, 13} ->
            [db |-> [d EXCEPT ![id] = IF d[id].present
                                      THEN [d[id] EXCEPT !.cooldown = Infinity, !.flag = code]
                                      ELSE d[id]],
             retry |-> TRUE]
      [] code = 5 ->
            [db |-> [d EXCEPT ![id] = IF d[id].present
                                      THEN [d[id] EXCEPT
                                              !.cooldown = TruncMinute(now) + TicksPerMinute,
                                              !.flag = 5]
                                      ELSE d[id]],
             retry |-> TRUE]
      [] code = 8 ->
            [db |-> [k \in KeyIds |-> IF d[k].present
                                      THEN [d[k] EXCEPT
                                              !.cooldown = now + 5 * TicksPerMinute,
                                              !.flag = 8]
                                      ELSE d[k]],
             retry |-> FALSE]
      [] code = 9 ->
            [db |-> [k \in KeyIds |-> IF d[k].present
                                      THEN [d[k] EXCEPT
                                              !.cooldown = now + TicksPerMinute,
                                              !.flag = 9]
                                      ELSE d[k]],
             retry |-> FALSE]
      [] code = 14 ->
            [db |-> [d EXCEPT ![id] = IF d[id].present
                                      THEN [d[id] EXCEPT
                                              !.cooldown = TruncDay(now) + TicksPerDay,
                                              !.flag = 14]
                                      ELSE d[id]],
             retry |-> TRUE]
      [] OTHER -> [db |-> d, retry |-> FALSE]

\* std::iter::zip(ids, keys): the pairs end with the shorter of the two.
ZipLen(n, keys) == Min(n, Len(keys))

\* execute_many up to join_all: acquire_many_keys for ids.len() keys; on Err
\* every id gets the storage error, on Ok one request per (id, key) pair.
ExecuteMany(sel, n) ==
    /\ bpc = "idle"
    /\ \E o \in Acquire(db, "many", sel, n, clock) \cup {[db |-> db, ret |-> RetPg]} :
        /\ db' = o.db
        /\ pre' = db
        /\ bcall' = [sel |-> sel, n |-> n, acquired |-> o.ret.status = "ok"]
        /\ task' = [i \in Ids |->
                      IF o.ret.status = "ok"
                      THEN IF i <= ZipLen(n, o.ret.keys)
                           THEN [st |-> "send", key |-> o.ret.keys[i], res |-> "none"]
                           ELSE NoTask
                      ELSE IF i <= n
                           THEN [st |-> "done", key |-> 0, res |-> "storage"]
                           ELSE NoTask]
        /\ wire' = IF o.ret.status = "ok" /\ ZipLen(n, o.ret.keys) > 0
                   THEN SendUrl([NoWire EXCEPT !.reg = TRUE])
                   ELSE [NoWire EXCEPT !.reg = TRUE]
    /\ bpc' = "running"
    /\ UNCHANGED <<clock, last, txVars, execVars, chain, sched>>

Finished(i, res) == [task EXCEPT ![i] = [st |-> "done", key |-> 0, res |-> res]]

\* One turn of a request's loop whose client.request(url) fails or whose
\* response is a result or does not parse.
Respond(i, r) ==
    /\ bpc = "running"
    /\ task[i].st = "send"
    /\ task' = Finished(i, r)
    /\ UNCHANGED <<storeVars, txVars, bpc, bcall, execVars, sideVars>>

\* One turn of a request's loop whose response is an API error: flag_key, then
\* either the error is returned or acquire_key gets the next key; either
\* storage call can fail.
RespondError(i, code, fails) ==
    /\ bpc = "running"
    /\ task[i].st = "send"
    /\ LET f == FlagKey(db, task[i].key, code, clock)
       IN IF fails = "flag_key"
          THEN db' = db /\ task' = Finished(i, "storage") /\ wire' = wire
          ELSE IF ~f.retry
          THEN db' = f.db /\ task' = Finished(i, "api") /\ wire' = wire
          ELSE IF fails = "acquire_key"
          THEN db' = f.db /\ task' = Finished(i, "storage") /\ wire' = wire
          ELSE \E o \in Acquire(f.db, "one", bcall.sel, 0, clock) :
                  /\ db' = o.db
                  /\ task' = IF o.ret.status = "ok"
                             THEN [task EXCEPT ![i].key = o.ret.keys[1]]
                             ELSE Finished(i, "storage")
                  /\ wire' = IF o.ret.status = "ok" THEN SendUrl(wire) ELSE wire
    /\ UNCHANGED <<clock, pre, last, txVars, bpc, bcall, execVars, chain, sched>>

\* join_all completes and HashMap::from_iter(tuples) is returned.
JoinAll ==
    /\ bpc = "running"
    /\ \A i \in Ids : task[i].st # "send"
    /\ bpc' = "returned"
    /\ UNCHANGED <<storeVars, txVars, bcall, task, execVars, sideVars>>

\* Wall-clock time passes before the batch is submitted; the batch itself is
\* answered within one tick.
BulkTick ==
    /\ bpc = "idle"
    /\ clock < MaxTime
    /\ clock' = clock + 1
    /\ UNCHANGED <<db, pre, last, txVars, bulkVars, execVars, sideVars>>

\* The entries of the returned map.
ResultIds == {i \in Ids : task[i].res # "none"}

InitBulk ==
    /\ db \in TxTables
    /\ clock = 0
    /\ pre = db
    /\ last = NoOp
    /\ TxIdle

NextBulk ==
    \/ \E sel \in BulkSelectors, n \in 0..MaxNumber : ExecuteMany(sel, n)
    \/ \E i \in Ids, r \in {"ok", "client", "response"} : Respond(i, r)
    \/ \E i \in Ids, code \in Codes, fails \in {"none", "flag_key", "acquire_key"} :
          RespondError(i, code, fails)
    \/ JoinAll
    \/ BulkTick

\* One bulk execution with its requests answered in any order.
SpecBulk == InitBulk /\ [][NextBulk]_vars

\* --------------------------------------- health calls on the storage
\* Error codes flag_key is called with and codes the default hooks are
\* registered for.
FlagCodes == {2, 13, 5, 6}
HookCodes == {2, 13, 5}

\* Durations timeout_key is called with, in ticks.
Durations == {1}

\* Ids of the keys the health calls are made for.
HealthIds == {1}

\* Selectors of the health specification's acquisitions and reads.
HealthSelectors == {SelHas(<<"All">>), SelHas(<<"Guild7">>), SelId(1)}

RetFlag(retry) == [status |-> IF retry THEN "retry" ELSE "noretry", keys |-> <<>>,
                   sel |-> NoSel]
RetKeyNotFound(sel) == [status |-> "keynotfound", keys |-> <<>>, sel |-> sel]
RetNoKey == [status |-> "nokey", keys |-> <<>>, sel |-> NoSel]

\* Present rows a selector's predicate holds for.
Matching(d, sel) == {k \in KeyIds : d[k].present /\ Matches(k, d[k], sel)}

\* read_key(selector): some matching row, or None.
ReadKey(d, sel) ==
    IF Matching(d, sel) = {} THEN {RetNoKey}
    ELSE {RetOk(<<k>>) : k \in Matching(d, sel)}

\* remove_key(selector): deletes the matching rows and returns one of them,
\* KeyNotFound when there is none.
RemoveKey(d, sel) ==
    IF Matching(d, sel) = {}
    THEN {[db |-> d, ret |-> RetKeyNotFound(sel)]}
    ELSE {[db |-> [k \in KeyIds |-> IF k \in Matching(d, sel) THEN NoRow ELSE d[k]],
           ret |-> RetOk(<<r>>)] : r \in Matching(d, sel)}

\* timeout_key(selector, duration): the matching rows are on cooldown until
\* now + duration.
TimeoutKey(d, sel, duration, now) ==
    [k \in KeyIds |-> IF k \in Matching(d, sel)
                      THEN [d[k] EXCEPT !.cooldown = now + duration]
                      ELSE d[k]]

\* The hooks of use_default_hooks, run for the key with the given id: the
\* possible (table, result) pairs; a code without hook changes nothing.
DefaultHookIdle(d, id, code, now) ==
    {[db |-> d, ret |-> RetFlag(code \in {2, 5, 10, 13, 18})]}

DefaultHook(d, id, code, now) ==
    CASE code \in {2, 10} ->
            {[db |-> o.db,
              ret |-> IF o.ret.status = "ok" THEN RetFlag(TRUE) ELSE o.ret] :
                o \in RemoveKey(d, SelId(id))}
      [] code = 5 ->
            {[db |-> TimeoutKey(d, SelId(id), TicksPerMinute, now), ret |-> RetFlag(TRUE)]}
      [] code \in {13, 18} ->
            {[db |-> TimeoutKey(d, SelId(id), TicksPerDay, now), ret |-> RetFlag(TRUE)]}
      [] OTHER -> {[db |-> d, ret |-> RetFlag(FALSE)]}

Done(op, sel, number, ret) ==
    [op |-> op, sel |-> sel, number |-> number, now |-> clock, ret |-> ret, proc |-> 0]

\* flag_key(key, code) for the key with the given id.
FlagKeyCall(id, code) ==
    /\ last.op = "none"
    /\ db' = FlagKey(db, id, code, clock).db
    /\ pre' = db
    /\ last' = Done("flag_key", SelId(id), code, RetFlag(FlagKey(db, id, code, clock).retry))
    /\ UNCHANGED <<clock, txVars, bulkVars, execVars, sideVars>>

\* The default hook of an error code, run for the key with the given id.
ErrorHookCall(id, code) ==
    /\ last.op = "none"
    /\ \E o \in DefaultHook(db, id, code, clock) :
        /\ db' = o.db
        /\ last' = Done("error_hook", SelId(id), code, o.ret)
    /\ pre' = db
    /\ UNCHANGED <<clock, txVars, bulkVars, execVars, sideVars>>

\* timeout_key(selector, duration).
TimeoutKeyCall(sel, duration) ==
    /\ last.op = "none"
    /\ db' = TimeoutKey(db, sel, duration, clock)
    /\ pre' = db
    /\ last' = Done("timeout_key", sel, duration, RetOk(<<>>))
    /\ UNCHANGED <<clock, txVars, bulkVars, execVars, sideVars>>

\* read_key(selector).
ReadKeyCall(sel) ==
    /\ last.op = "none"
    /\ \E r \in ReadKey(db, sel) : last' = Done("read_key", sel, 0, r)
    /\ pre' = db
    /\ UNCHANGED <<db, clock, txVars, bulkVars, execVars, sideVars>>

InitHealthSpec ==
    /\ db \in TxTables
    /\ clock = 0
    /\ pre = db
    /\ last = NoOp
    /\ TxIdle

NextHealth ==
    \/ \E sel \in HealthSelectors : AcquireKey(sel)
    \/ \E sel \in HealthSelectors, number \in 1..MaxNumber : AcquireManyKeys(sel, number)
    \/ \E id \in HealthIds, code \in FlagCodes : FlagKeyCall(id, code)
    \/ \E id \in HealthIds, code \in HookCodes : ErrorHookCall(id, code)
    \/ \E id \in HealthIds, duration \in Durations : TimeoutKeyCall(SelId(id), duration)
    \/ \E sel \in HealthSelectors : ReadKeyCall(sel)
    \/ Return
    \/ Tick

\* Acquisitions interleaved with health calls, one call after the other.
SpecHealth == InitHealthSpec /\ [][NextHealth]_vars

\* --------------------------------------------------------- administration
\* jsonb_array_elements_text: the elements of a jsonb array as text values.
JsonbArrayElementsText(ds) == [i \in DOMAIN ds |-> <<"text", ds[i]>>]

\* $2::text: the text of a jsonb value.
JsonbToText(d) == <<"text", d>>

\* d::jsonb: the jsonb value a text parses to.
TextToJsonb(t) == t[2]

\* SQL NULL where a jsonb array is expected.
NullJsonb == <<"null">>

\* jsonb_agg(d::jsonb) over a set of rows: NULL when there is no row, else the
\* array of the rows in the order the backend produces them.
JsonbAgg(rows) ==
    IF rows = {} THEN {NullJsonb}
    ELSE {[i \in DOMAIN f |-> TextToJsonb(f[i])] : f \in Orderings(rows)}

\* __unique_jsonb_array($1)
UniqueJsonbArray(ds) ==
    JsonbAgg({JsonbArrayElementsText(ds)[i] : i \in DOMAIN ds})

\* __filter_jsonb_array($1, $2)
FilterJsonbArray(ds, d) ==
    JsonbAgg({t \in {JsonbArrayElementsText(ds)[i] : i \in DOMAIN ds} : t # JsonbToText(d)})

\* coalesce(v, w)
CoalesceFirst(v, w) == v

Coalesce(v, w) == IF v = NullJsonb THEN w ELSE v

\* store_key(user_id, key, domains): an insert, or on a conflict with the
\* unique constraint on key the update of the existing row's domains; a NULL
\* in domains violates the column's not null constraint. The row of secret s
\* has id s.
StoreKey(d, user_id, key, domains, now) ==
    LET existing == {k \in KeyIds : d[k].present /\ d[k].key = key}
    IN IF existing = {}
       THEN {[db |-> [d EXCEPT ![key] = Row(TRUE, user_id, key, 0, domains, now, NULL, NULL)],
              ret |-> RetOk(<<key>>)]}
       ELSE LET k == CHOOSE e \in existing : TRUE
            IN {IF u = NullJsonb
                THEN [db |-> d, ret |-> RetPg]
                ELSE [db |-> [d EXCEPT ![k].domains = u], ret |-> RetOk(<<k>>)] :
                   u \in UniqueJsonbArray(domains \o d[k].domains)}

\* "update api_keys set domains = <expression> where <predicate> returning *"
\* with fetch_optional and ok_or_else: every matching row is updated and one
\* of them returned, KeyNotFound when no row matches; new[k] are the values
\* the expression can take for the row with id k.
UpdateDomainsAlways(d, sel, new) ==
    LET M == IF Matching(d, sel) = {} THEN {k \in KeyIds : d[k].present} ELSE Matching(d, sel)
    IN {[db |-> [k \in KeyIds |-> IF k \in M THEN [d[k] EXCEPT !.domains = f[k]] ELSE d[k]],
         ret |-> RetOk(<<r>>)] :
            f \in {g \in [M -> UNION {new[k] : k \in M}] : \A k \in M : g[k] \in new[k]},
            r \in M}

UpdateDomains(d, sel, new) ==
    LET M == Matching(d, sel)
    IN IF M = {}
       THEN {[db |-> d, ret |-> RetKeyNotFound(sel)]}
       ELSE {IF \E k \in M : f[k] = NullJsonb
             THEN [db |-> d, ret |-> RetPg]
             ELSE [db |-> [k \in KeyIds |->
                              IF k \in M THEN [d[k] EXCEPT !.domains = f[k]] ELSE d[k]],
                   ret |-> RetOk(<<r>>)] :
                f \in {g \in [M -> UNION {new[k] : k \in M}] : \A k \in M : g[k] \in new[k]},
                r \in M}

\* add_domain_to_key(selector, domain)
AddDomainToKey(d, sel, domain) ==
    UpdateDomains(d, sel, [k \in KeyIds |-> UniqueJsonbArray(d[k].domains \o <<domain>>)])

\* remove_domain_from_key(selector, domain)
RemoveDomainFromKeyKeeps(d, sel, domain) ==
    UpdateDomains(d, sel, [k \in KeyIds |-> {d[k].domains}])

RemoveDomainFromKey(d, sel, domain) ==
    UpdateDomains(d, sel,
        [k \in KeyIds |-> {Coalesce(u, <<>>) : u \in FilterJsonbArray(d[k].domains, domain)}])

\* set_domains_for_key(selector, domains)
SetDomainsForKey(d, sel, domains) ==
    UpdateDomains(d, sel, [k \in KeyIds |-> {domains}])

\* Owners, secrets, domain lists and selectors the administrative calls are
\* made with.
AdminUsers == {1, 2}
AdminSecrets == {1, 2}
AdminDomains == {"All", "User1"}
AdminDomainLists == {<<>>, <<"All">>, <<"User1", "All">>, <<"All", "All">>}
AdminSelectors ==
    {SelId(1), SelKey(2), SelUserId(2), SelHas(<<"User1">>), SelOneOf(<<>>)}

\* A completed administrative call, its arguments and its result.
DoneAdmin(op, sel, user_id, domains, ret) ==
    [op |-> op, sel |-> sel, number |-> user_id, now |-> clock, ret |-> ret, proc |-> 0,
     domains |-> domains]

StoreKeyCall(user_id, key, domains) ==
    /\ last.op = "none"
    /\ \E o \in StoreKey(db, user_id, key, domains, clock) :
        /\ db' = o.db
        /\ last' = DoneAdmin("store_key", SelKey(key), user_id, domains, o.ret)
    /\ pre' = db
    /\ UNCHANGED <<clock, txVars, bulkVars, execVars, sideVars>>

RemoveKeyCall(sel) ==
    /\ last.op = "none"
    /\ \E o \in RemoveKey(db, sel) :
        /\ db' = o.db
        /\ last' = DoneAdmin("remove_key", sel, 0, <<>>, o.ret)
    /\ pre' = db
    /\ UNCHANGED <<clock, txVars, bulkVars, execVars, sideVars>>

AddDomainToKeyCall(sel, domain) ==
    /\ last.op = "none"
    /\ \E o \in AddDomainToKey(db, sel, domain) :
        /\ db' = o.db
        /\ last' = DoneAdmin("add_domain_to_key", sel, 0, <<domain>>, o.ret)
    /\ pre' = db
    /\ UNCHANGED <<clock, txVars, bulkVars, execVars, sideVars>>

RemoveDomainFromKeyCall(sel, domain) ==
    /\ last.op = "none"
    /\ \E o \in RemoveDomainFromKey(db, sel, domain) :
        /\ db' = o.db
        /\ last' = DoneAdmin("remove_domain_from_key", sel, 0, <<domain>>, o.ret)
    /\ pre' = db
    /\ UNCHANGED <<clock, txVars, bulkVars, execVars, sideVars>>

SetDomainsForKeyCall(sel, domains) ==
    /\ last.op = "none"
    /\ \E o \in SetDomainsForKey(db, sel, domains) :
        /\ db' = o.db
        /\ last' = DoneAdmin("set_domains_for_key", sel, 0, domains, o.ret)
    /\ pre' = db
    /\ UNCHANGED <<clock, txVars, bulkVars, execVars, sideVars>>

\* Tables of the administrative specification: the keys of TxTables, key 1
\* possibly without domains, key 3 possibly missing.
AdminTables ==
    {[k \in KeyIds |->
        IF k = 3 /\ ~has3 THEN NoRow
        ELSE IF k = 1 /\ bare THEN [t[k] EXCEPT !.domains = <<>>]
        ELSE t[k]] : t \in TxTables, has3 \in BOOLEAN, bare \in BOOLEAN}

InitAdmin ==
    /\ db \in AdminTables
    /\ clock = 0
    /\ pre = db
    /\ last = NoOp
    /\ TxIdle

NextAdmin ==
    \/ \E u \in AdminUsers, s \in AdminSecrets, ds \in AdminDomainLists : StoreKeyCall(u, s, ds)
    \/ \E sel \in AdminSelectors : RemoveKeyCall(sel)
    \/ \E sel \in AdminSelectors, d \in AdminDomains : AddDomainToKeyCall(sel, d)
    \/ \E sel \in AdminSelectors, d \in AdminDomains : RemoveDomainFromKeyCall(sel, d)
    \/ \E sel \in AdminSelectors, ds \in AdminDomainLists : SetDomainsForKeyCall(sel, ds)
    \/ \E sel \in AdminSelectors : ReadKeyCall(sel)
    \/ Return

\* The administrative calls of the storage, one after the other.
SpecAdmin == InitAdmin /\ [][NextAdmin]_vars

\* ----------------------------------------------------------- orchestrators
\* The two request loops: KeyPoolExecutor::execute (flag_key, post-response
\* hooks) and KeyPoolInner::execute_request (error hooks).
Orchestrators == {"execute", "execute_request"}

\* Acquisitions one request is followed for.
MaxTurns == 3

\* Error codes of the answers: invalid key (2), rate limited (5), IP block
\* (8), and a code without action or hook (6).
ExecCodes == {2, 5, 8, 6}

\* Selectors the requests are made with.
ExecSelectors == {SelHas(<<"All">>), SelHas(<<"Guild7">>), SelId(1)}

\* KeyAction values a post-response hook returns as Err(..).
KeyActions ==
    {[act |-> "Delete", domain |-> "none"],
     [act |-> "RemoveDomain", domain |-> "All"],
     [act |-> "RemoveDomain", domain |-> "Guild7"]}

\* self.options.error_hooks.get(&err.code()) of a pool built with
\* use_default_hooks (hooks) or without hooks.
Registered(hooks, code) == hooks /\ code \in {2, 5, 10, 13, 18}

\* A storage call that fails in the backend.
PgFailure(d) == [db |-> d, ret |-> RetPg]

\* What the loop does with the key on an API error: execute calls flag_key,
\* execute_request the hook registered for the code, if any. The possible
\* (table, result) pairs; a call that issues a statement can fail.
ErrorAction(via, hooks, d, id, code, now) ==
    IF via = "execute"
    THEN {[db |-> FlagKey(d, id, code, now).db, ret |-> RetFlag(FlagKey(d, id, code, now).retry)]}
         \cup (IF code \in {2, 10, 13, 5, 8, 9, 14} THEN {PgFailure(d)} ELSE {})
    ELSE IF Registered(hooks, code)
    THEN DefaultHook(d, id, code, now) \cup {PgFailure(d)}
    ELSE {[db |-> d, ret |-> RetFlag(FALSE)]}

\* What the loop does with the key when the post-response hook returns an
\* action: remove_key(key.selector()) or remove_domain_from_key(key.selector(),
\* domain).
HookAction(d, id, act) ==
    IF act.act = "Delete" THEN RemoveKey(d, SelId(id))
    ELSE RemoveDomainFromKey(d, SelId(id), act.domain)

\* The request after acquire_key returned: it holds the key, or ends with
\* the storage error.
AfterAcquire(r, ret) ==
    IF ret.status = "ok"
    THEN [r EXCEPT !.st = "send", !.key = ret.keys[1], !.turns = @ + 1, !.ev = "acquire"]
    ELSE [r EXCEPT !.st = "done", !.key = 0, !.turns = @ + 1, !.ev = "acquire",
                   !.res = ret.status]

\* The request after client.request(url) / send() failed.
AfterTransportRetries(r) ==
    [r EXCEPT !.st = "retry", !.sends = @ + 1, !.ev = "transport", !.failed = r.key,
              !.cause = "transport"]

AfterTransport(r) ==
    [r EXCEPT !.st = "done", !.sends = @ + 1, !.ev = "transport", !.res = "client"]

\* The request after an answer that is neither a result nor a well-formed
\* error: ResponseError::MalformedResponse / serde_json::Error.
AfterMalformed(r) ==
    [r EXCEPT !.st = "done", !.sends = @ + 1, !.ev = "malformed", !.res = "malformed"]

\* The request after an API error and the storage call made for it: the
\* next turn of the loop, the API error, or the storage call's error.
AfterErrorReturns(r, code, ret) ==
    [r EXCEPT !.st = "done", !.sends = @ + 1, !.ev = "api", !.code = code,
              !.res = IF ret.status \in {"retry", "noretry"} THEN "api" ELSE ret.status]

AfterErrorRetries(r, code, ret) ==
    IF ret.status \in {"retry", "noretry"}
    THEN [r EXCEPT !.st = "retry", !.sends = @ + 1, !.ev = "api", !.code = code,
                   !.failed = r.key, !.cause = "api"]
    ELSE [r EXCEPT !.st = "done", !.sends = @ + 1, !.ev = "api", !.code = code,
                   !.res = ret.status]

AfterError(r, code, ret) ==
    CASE ret.status = "retry" ->
            [r EXCEPT !.st = "retry", !.sends = @ + 1, !.ev = "api", !.code = code,
                      !.failed = r.key, !.cause = "api"]
      [] ret.status = "noretry" ->
            [r EXCEPT !.st = "done", !.sends = @ + 1, !.ev = "api", !.code = code,
                      !.res = "api"]
      [] OTHER ->
            [r EXCEPT !.st = "done", !.sends = @ + 1, !.ev = "api", !.code = code,
                      !.res = ret.status]

\* The request after a result: returned to the caller, or, when the
\* post-response hook asked for an action, the next turn of the loop or the
\* error of the action's storage call.
AfterResponse(r, act, ret) ==
    IF act = NoAction
    THEN [r EXCEPT !.st = "done", !.sends = @ + 1, !.ev = "response", !.res = "ok"]
    ELSE IF ret.status = "ok"
    THEN [r EXCEPT !.st = "retry", !.sends = @ + 1, !.ev = "after", !.act = act,
                   !.failed = r.key, !.cause = "after"]
    ELSE [r EXCEPT !.st = "done", !.sends = @ + 1, !.ev = "after", !.act = act,
                   !.res = ret.status]

\* The request is submitted: the first turn of the loop up to its send.
Execute(via, sel, hooks) ==
    /\ req.st = "idle"
    /\ \E o \in Acquire(db, "one", sel, 0, clock) \cup {PgFailure(db)} :
        /\ db' = o.db
        /\ req' = AfterAcquire([NoReq EXCEPT !.via = via, !.sel = sel, !.hooks = hooks], o.ret)
        /\ wire' = LET w == RunHookBefore([NoWire EXCEPT !.reg = (via = "execute" /\ hooks)])
                   IN IF o.ret.status = "ok" THEN SendUrl(w) ELSE w
    /\ pre' = db
    /\ UNCHANGED <<clock, last, txVars, bulkVars, chain, sched>>

\* A later turn of the loop up to its send.
Reacquire ==
    /\ req.st = "retry"
    /\ req.turns < MaxTurns
    /\ \E o \in Acquire(db, "one", req.sel, 0, clock) \cup {PgFailure(db)} :
        /\ db' = o.db
        /\ req' = AfterAcquire(req, o.ret)
        /\ wire' = IF o.ret.status = "ok" THEN SendUrl(wire) ELSE wire
    /\ pre' = db
    /\ UNCHANGED <<clock, last, txVars, bulkVars, chain, sched>>

\* The send fails in the transport.
TransportError ==
    /\ req.st = "send"
    /\ req' = AfterTransport(req)
    /\ pre' = db
    /\ UNCHANGED <<db, clock, last, txVars, bulkVars, sideVars>>

\* The answer cannot be decoded.
MalformedResponse ==
    /\ req.st = "send"
    /\ req' = AfterMalformed(req)
    /\ pre' = db
    /\ UNCHANGED <<db, clock, last, txVars, bulkVars, sideVars>>

\* The answer is an API error.
UpstreamError(code) ==
    /\ req.st = "send"
    /\ \E o \in ErrorAction(req.via, req.hooks, db, req.key, code, clock) :
        /\ db' = o.db
        /\ req' = AfterError(req, code, o.ret)
    /\ pre' = db
    /\ UNCHANGED <<clock, last, txVars, bulkVars, sideVars>>

\* The answer is a result and no post-response hook objects.
Success ==
    /\ req.st = "send"
    /\ req' = AfterResponse(req, NoAction, RetNone)
    /\ pre' = db
    /\ UNCHANGED <<db, clock, last, txVars, bulkVars, sideVars>>

\* The answer is a result and the post-response hook returns an action.
SuccessWithAction(act) ==
    /\ req.st = "send"
    /\ req.via = "execute"
    /\ req.hooks
    /\ \E o \in HookAction(db, req.key, act) \cup {PgFailure(db)} :
        /\ db' = o.db
        /\ req' = AfterResponse(req, act, o.ret)
    /\ pre' = db
    /\ UNCHANGED <<clock, last, txVars, bulkVars, sideVars>>

\* Another user of the storage removes the key while the request is sent.
RemovedMeanwhile ==
    /\ req.st = "send"
    /\ db[req.key].present
    /\ \E o \in RemoveKey(db, SelId(req.key)) : db' = o.db
    /\ req' = [req EXCEPT !.ev = "removed"]
    /\ pre' = db'
    /\ UNCHANGED <<clock, last, txVars, bulkVars, sideVars>>

InitExec ==
    /\ db \in TxTables
    /\ clock = 0
    /\ pre = db
    /\ last = NoOp
    /\ TxIdle

NextExec ==
    \/ \E via \in Orchestrators, sel \in ExecSelectors, hooks \in BOOLEAN :
          Execute(via, sel, hooks)
    \/ Reacquire
    \/ TransportError
    \/ MalformedResponse
    \/ \E code \in ExecCodes : UpstreamError(code)
    \/ Success
    \/ \E act \in KeyActions : SuccessWithAction(act)
    \/ RemovedMeanwhile
    \/ Tick

\* One request through either loop, while time passes.
SpecExec == InitExec /\ [][NextExec]_vars

\* ------------------------------------------------- default error policy
\* Error codes of the answers: too many requests (5) and daily read limit
\* reached (14).
PolicyCodes == {5, 14}

NextPolicy ==
    \/ \E via \in Orchestrators, sel \in ExecSelectors : Execute(via, sel, TRUE)
    \/ Reacquire
    \/ \E code \in PolicyCodes : UpstreamError(code)
    \/ Success
    \/ Tick

\* One request through either loop of a pool with the default handling of
\* API errors, answered with rate-limit errors, while time passes.
SpecPolicy == InitExec /\ [][NextPolicy]_vars

\* ----------------------------------------- requests of a pool with hooks
\* Selectors of the requests of a pool with a pre-request hook.
HookSelectors == {SelHas(<<"All">>), SelHas(<<"Guild7">>)}

\* A client of a pool built with hook_before submits one request through
\* execute or one batch through execute_many.
SubmitOne(sel) == bpc = "idle" /\ Execute("execute", sel, TRUE)

SubmitMany(sel, n) == req.st = "idle" /\ ExecuteMany(sel, n)

NextHook ==
    \/ \E sel \in HookSelectors : SubmitOne(sel)
    \/ Reacquire
    \/ \E code \in ExecCodes : UpstreamError(code)
    \/ Success
    \/ \E act \in KeyActions : SuccessWithAction(act)
    \/ \E sel \in HookSelectors, n \in 1..MaxNumber : SubmitMany(sel, n)
    \/ \E i \in Ids, r \in {"ok", "client", "response"} : Respond(i, r)
    \/ \E i \in Ids, code \in Codes, fails \in {"none", "flag_key", "acquire_key"} :
          RespondError(i, code, fails)
    \/ JoinAll
    \/ BulkTick

\* One request or one batch of a pool with hooks.
SpecHook == InitExec /\ [][NextHook]_vars

\* ------------------------------------------------- abandoned requests
\* The caller drops the future of execute / execute_request while it waits
\* for the answer or is about to acquire again: the loop runs no further.
AfterAbandon(r) == [r EXCEPT !.st = "done", !.ev = "abandon", !.res = "abandoned"]

Abandon ==
    /\ req.st \in {"send", "retry"}
    /\ req' = AfterAbandon(req)
    /\ pre' = db
    /\ UNCHANGED <<db, clock, last, txVars, bulkVars, sideVars>>

NextAbandon == NextExec \/ Abandon

\* One request through either loop, which the caller may give up.
SpecAbandon == InitExec /\ [][NextAbandon]_vars

\* ------------------------------------------- calls along fallback chains
\* Implementations of KeyDomain::fallback: the one of the tests (Guild -> All),
\* one in which All is its own fallback, and one in which All falls back to
\* the guild, which falls back to All.
FallbackRelations == {"tree", "self", "cycle"}

DomainFallbackIn(rel, d) ==
    CASE rel = "self" /\ d = "All" -> <<"All">>
      [] rel = "cycle" /\ d = "All" -> <<"Guild7">>
      [] OTHER -> DomainFallback(d)

\* domains.iter().filter_map(|d| d.fallback()).collect()
RECURSIVE FilterMapFallbackIn(_, _)
FilterMapFallbackIn(rel, ds) ==
    IF ds = <<>> THEN <<>>
    ELSE DomainFallbackIn(rel, Head(ds)) \o FilterMapFallbackIn(rel, Tail(ds))

\* KeySelector::fallback over the given implementation.
SelectorFallbackIn(rel, sel) ==
    IF sel.type \in {"Key", "UserId", "Id"} THEN NoSel
    ELSE LET fallbacks == FilterMapFallbackIn(rel, sel.ds)
         IN IF fallbacks = <<>> THEN NoSel ELSE Sel(sel.type, fallbacks, 0)

\* Selectors the followed calls are made with.
ChainSelectors ==
    {SelHas(<<"All">>), SelHas(<<"Guild7">>), SelOneOf(<<"Guild7", "User1">>), SelId(1)}

\* acquire_key (kind "one") or acquire_many_keys ("many") is called on a
\* storage whose domain type implements the given fallback relation.
ChainCall(rel, kind, sel, number) ==
    /\ chain.st = "idle"
    /\ chain' = [NoChain EXCEPT !.st = "begin", !.rel = rel, !.kind = kind, !.req = sel,
                                !.sel = sel, !.number = number]
    /\ UNCHANGED <<storeVars, txVars, bulkVars, execVars, wire, sched>>

\* self.pool.begin() of the current call.
ChainBegin ==
    /\ chain.st = "begin"
    /\ chain' = [chain EXCEPT !.st = "open", !.now = clock]
    /\ UNCHANGED <<storeVars, txVars, bulkVars, execVars, wire, sched>>

\* The statements and the commit of the current call, and `match attempt`:
\* Ok(Some(..)) returns the keys, Ok(None) calls the function again with
\* the selector's fallback or fails with Unavailable.
ChainAttempt ==
    /\ chain.st = "open"
    /\ \E a \in Attempts(db, chain.kind, chain.sel, chain.number, chain.now) :
          IF a.some
          THEN /\ db' = ApplyWrites(db, a.writes, chain.now)
               /\ chain' = [chain EXCEPT !.st = "done", !.ret = RetOk(a.keys)]
          ELSE /\ db' = db
               /\ chain' = IF SelectorFallbackIn(chain.rel, chain.sel) = NoSel
                           THEN [chain EXCEPT !.st = "done",
                                              !.ret = RetUnavailable(chain.sel)]
                           ELSE [chain EXCEPT !.st = "begin",
                                              !.sel = SelectorFallbackIn(chain.rel, chain.sel)]
    /\ pre' = db
    /\ UNCHANGED <<clock, last, txVars, bulkVars, execVars, wire, sched>>

NextChain ==
    \/ \E rel \in FallbackRelations, sel \in ChainSelectors : ChainCall(rel, "one", sel, 0)
    \/ \E rel \in FallbackRelations, sel \in ChainSelectors, number \in 1..MaxNumber :
          ChainCall(rel, "many", sel, number)
    \/ ChainBegin
    \/ ChainAttempt
    \/ Tick

\* One storage call followed through its recursion.
SpecChain == Init /\ [][NextChain]_vars

\* The runtime keeps polling the call's future and the backend answers every
\* statement.
SpecChainFair == SpecChain /\ WF_vars(ChainBegin) /\ WF_vars(ChainAttempt)

\* ------------------------------------------------ throttled bulk execution
\* Spacings the throttled executor is configured with, in ticks.
Distances == {0, 1}

\* Selectors and error codes of the throttled batches: an invalid key (2, the
\* default hook removes it and the request is retried) and a code without
\* hook (6).
ThrottleSelectors == {SelHas(<<"All">>)}
ThrottleCodes == {2, 6}

\* Requests buffer_unordered holds.
InFlight(sc) == {i \in Ids : sc.flight[i] # 0}

\* tokio_stream's Throttle: the first item is yielded at once, every later
\* one no sooner than `duration` after the one before it.
ThrottleReadyAlways(sc, now) == TRUE

ThrottleReady(sc, now) == sc.lastAt = NULL \/ now >= sc.lastAt + sc.distance

\* buffer_unordered(25) polls the stream only while it holds fewer futures.
HasRoom(sc) == Cardinality(InFlight(sc)) < MaxInFlight

\* One turn of execute_request for request i from its acquire_key on: the
\* request is in flight with the key, or it has produced its (error) result.
Turn(sc, i, ret) ==
    IF ret.status = "ok"
    THEN [sc EXCEPT !.flight[i] = ret.keys[1]]
    ELSE [sc EXCEPT !.flight[i] = 0, !.results[i] = @ + 1]

\* The request leaves the buffer with its result.
Yield(sc, i) == [sc EXCEPT !.flight[i] = 0, !.results[i] = @ + 1]

\* ThrottledKeyPoolExecutor::execute: the stream over the requests is built.
ThrottledExecute(sel, n, distance) ==
    /\ sched.st = "idle"
    /\ sched' = [NoSched EXCEPT !.st = "running", !.sel = sel, !.n = n,
                                !.distance = distance]
    /\ UNCHANGED <<storeVars, txVars, bulkVars, execVars, wire, chain>>

\* The buffer takes the next request from the throttled stream and starts
\* its future: execute_request up to the first send.
Dispatch ==
    /\ sched.st = "running"
    /\ sched.next <= sched.n
    /\ HasRoom(sched)
    /\ ThrottleReady(sched, clock)
    /\ \E o \in Acquire(db, "one", sched.sel, 0, clock) \cup {PgFailure(db)} :
          /\ db' = o.db
          /\ sched' = Turn([sched EXCEPT !.next = @ + 1, !.lastAt = clock],
                           sched.next, o.ret)
    /\ pre' = db
    /\ UNCHANGED <<clock, last, txVars, bulkVars, execVars, wire, chain>>

\* The answer to request i is a result.
ThrottledResponse(i) ==
    /\ sched.st = "running"
    /\ i \in InFlight(sched)
    /\ sched' = Yield(sched, i)
    /\ pre' = db
    /\ UNCHANGED <<db, clock, last, txVars, bulkVars, execVars, wire, chain>>

\* The answer to request i is an API error: the hook registered for the code
\* runs; on retry the loop acquires again, otherwise the error is the result.
ThrottledError(i, code) ==
    /\ sched.st = "running"
    /\ i \in InFlight(sched)
    /\ \E h \in ErrorAction("execute_request", TRUE, db, sched.flight[i], code, clock) :
          IF h.ret.status = "retry"
          THEN \E o \in Acquire(h.db, "one", sched.sel, 0, clock) \cup {PgFailure(h.db)} :
                  /\ db' = o.db
                  /\ sched' = Turn(sched, i, o.ret)
          ELSE /\ db' = h.db
               /\ sched' = Yield(sched, i)
    /\ pre' = db
    /\ UNCHANGED <<clock, last, txVars, bulkVars, execVars, wire, chain>>

\* The stream has yielded every request and the buffer is empty: the stream
\* of results ends.
StreamEnd ==
    /\ sched.st = "running"
    /\ sched.next > sched.n
    /\ InFlight(sched) = {}
    /\ sched' = [sched EXCEPT !.st = "done"]
    /\ UNCHANGED <<storeVars, txVars, bulkVars, execVars, wire, chain>>

NextThrottled ==
    \/ \E sel \in ThrottleSelectors, n \in 1..MaxNumber, distance \in Distances :
          ThrottledExecute(sel, n, distance)
    \/ Dispatch
    \/ \E i \in Ids : ThrottledResponse(i)
    \/ \E i \in Ids, code \in ThrottleCodes : ThrottledError(i, code)
    \/ StreamEnd
    \/ Tick

\* One batch through the throttled executor, while time passes.
SpecThrottled == InitExec /\ [][NextThrottled]_vars

\* ------------------------------------------------------ selector fallback
\* Longest domain list of the selectors KeySelector::fallback is applied to.
MaxDomains == 2

\* Vec<D> values of at most MaxDomains domains.
DomainLists == UNION {[1..n -> Domains] : n \in 0..MaxDomains}

\* The selectors KeySelector::fallback is applied to.
FallbackInputs ==
    {Sel(t, ds, 0) : t \in {"Has", "OneOf"}, ds \in DomainLists}
        \cup {SelKey(1), SelId(1), SelUserId(1)}

\* An Option<KeySelector> as the result of a call.
RetSelector(sel) ==
    [status |-> IF sel = NoSel THEN "none" ELSE "some", keys |-> <<>>, sel |-> sel]

\* selector.fallback()
Fallback(sel) ==
    /\ last.op = "none"
    /\ last' = Done("fallback", sel, 0, RetSelector(SelectorFallback(sel)))
    /\ pre' = db
    /\ UNCHANGED <<db, clock, txVars, bulkVars, execVars, sideVars>>

NextFallback ==
    \/ \E sel \in FallbackInputs : Fallback(sel)
    \/ Return
    \/ Tick

\* KeySelector::fallback applied to selectors of every kind.
SpecFallback == Init /\ [][NextFallback]_vars

\* ------------------------------------------------------ sequential claims
\* Remaining capacity of a set of keys: the sum of Limit - effective usage.
RECURSIVE Room(_, _, _)
Room(d, S, now) ==
    IF S = {} THEN 0
    ELSE LET k == CHOOSE x \in S : TRUE
         IN (Limit - EffUses(d[k], now)) + Room(d, S \ {k}, now)

\* Total remaining capacity of the eligible keys matching a selector.
Capacity(d, sel, now) == Room(d, Candidates(d, sel, now), now)

\* Number of times id k occurs in a returned key list.
Occurrences(keys, k) == Cardinality({i \in DOMAIN keys : keys[i] = k})

AcquiredOne == last.op = "acquire_key" /\ last.ret.status = "ok"

\* C2: a successful acquire_key on a key of effective usage u < Limit leaves
\* that key's counter at u + 1 (at 1 when its last use was in an earlier
\* minute), sets its last_used to now, clears its cooldown and flag, and
\* changes nothing else in the table.
C2_AcquireChargesOne ==
    AcquiredOne =>
        LET k == last.ret.keys[1]
            stored == IF pre[k].last_used < TruncMinute(last.now) THEN 0 ELSE pre[k].uses
        IN /\ Len(last.ret.keys) = 1
           /\ stored < Limit
           /\ db[k] = [pre[k] EXCEPT !.uses = stored + 1, !.last_used = last.now,
                                     !.cooldown = NULL, !.flag = NULL]
           /\ \A j \in KeyIds \ {k} : db[j] = pre[j]

\* C2 witness: a key whose stored counter was at the limit in an earlier
\* minute is acquired and ends with counter 1.
C2_Witness ==
    /\ AcquiredOne
    /\ LET k == last.ret.keys[1]
       IN /\ pre[k].uses = Limit
          /\ pre[k].last_used < TruncMinute(last.now)
          /\ db[k].uses = 1

\* The selector with every domain replaced by its fallback.
ReplacedByFallback(sel) == [sel EXCEPT !.ds = FilterMapFallback(sel.ds)]

\* Keys that could serve the fallback of a selector: eligible, matching, below
\* the limit.
FallbackSupply(d, sel, now) ==
    {k \in Candidates(d, ReplacedByFallback(sel), now) : EffUses(d[k], now) < Limit}

FallbackCase ==
    /\ last.op = "acquire_key"
    /\ last.sel.type \in {"Has", "OneOf"}
    /\ Candidates(pre, last.sel, last.now) = {}
    /\ FilterMapFallback(last.sel.ds) # <<>>
    /\ FallbackSupply(pre, last.sel, last.now) # {}

\* C9: when no eligible key matches the requested selector but an eligible key
\* with capacity matches the selector with every domain replaced by its
\* fallback, acquire_key returns such a key and charges it.
C9_FallbackServes ==
    FallbackCase =>
        /\ last.ret.status = "ok"
        /\ LET k == last.ret.keys[1]
           IN /\ k \in FallbackSupply(pre, last.sel, last.now)
              /\ db[k].uses = EffUses(pre[k], last.now) + 1

\* C9 witness: Guild7 is requested, key 1 (the guild's key) does not exist and
\* a key carrying All is returned.
C9_Witness ==
    /\ FallbackCase
    /\ last.sel = SelHas(<<"Guild7">>)
    /\ ~pre[1].present
    /\ last.ret.status = "ok"
    /\ Contains(db[last.ret.keys[1]].domains, "All")

IdentityCall == last.op = "acquire_key" /\ last.sel.type \in {"Key", "Id", "UserId"}

\* C10: acquire_key with a Key, Id or UserId selector returns only a key that
\* matches it; when no matching key is eligible and below the limit, it fails
\* with Unavailable for that very selector and the table is unchanged.
C10_IdentityNoFallback ==
    IdentityCall =>
        /\ last.ret.status = "ok" =>
              Matches(last.ret.keys[1], pre[last.ret.keys[1]], last.sel)
        /\ (\A k \in Candidates(pre, last.sel, last.now) :
                EffUses(pre[k], last.now) >= Limit) =>
              /\ last.ret = RetUnavailable(last.sel)
              /\ db = pre

\* C10 witness: an identity selector whose key is on cooldown fails while
\* another key with capacity exists.
C10_Witness ==
    /\ IdentityCall
    /\ last.ret.status = "unavailable"
    /\ \E k \in KeyIds : /\ pre[k].present
                         /\ Matches(k, pre[k], last.sel)
                         /\ ~CooldownOver(pre[k], last.now)
    /\ \E j \in KeyIds : /\ pre[j].present
                         /\ CooldownOver(pre[j], last.now)
                         /\ EffUses(pre[j], last.now) < Limit

BulkCall ==
    /\ last.op = "acquire_many_keys"
    /\ Candidates(pre, last.sel, last.now) # {}

\* Eligible keys matching the selector start within 1 of each other, so that
\* a spread of at most 1 is attainable for every number of keys handed out.
LevelStart ==
    \A a, b \in Candidates(pre, last.sel, last.now) :
        EffUses(pre[a], last.now) - EffUses(pre[b], last.now) <= 1

\* C6: after acquire_many_keys(selector, N) with N at most the total remaining
\* capacity of the eligible keys matching the selector, the largest and the
\* smallest effective usage among those keys differ by at most 1 (stated for
\* the tables in which they did so before the call).
C6_MaxMinFairness ==
    (BulkCall /\ LevelStart /\ last.number <= Capacity(pre, last.sel, last.now)) =>
        \A a, b \in Candidates(pre, last.sel, last.now) :
            EffUses(db[a], last.now) - EffUses(db[b], last.now) <= 1

\* C7: acquire_many_keys(selector, N) returns exactly min(N, C) keys, C being
\* the total remaining capacity of the eligible keys matching the selector.
C7_ReturnsMinOfNumberAndCapacity ==
    BulkCall =>
        /\ last.ret.status = "ok"
        /\ Len(last.ret.keys) = Min(last.number, Capacity(pre, last.sel, last.now))

\* ------------------------------------------------------ concurrency claims
\* C1: whatever the interleaving of concurrent acquire_key and
\* acquire_many_keys transactions, conflicts and retries included, no key's
\* counter (stored or effective) exceeds Limit, and within one minute no key is
\* handed out more often than its remaining usage allowed.
C1_NoOverrun ==
    \A k \in KeyIds :
        /\ db[k].uses <= Limit
        /\ EffUses(db[k], clock) <= Limit
        /\ clock < TicksPerMinute => pre[k].uses + given[k] <= Limit

\* C1 witness: a call that went through a conflict and a retry has returned,
\* and a key stands at the limit.
C1_Witness ==
    /\ \E p \in Procs : retries[p] > 0 /\ out[p].status = "ok"
    /\ \E k \in KeyIds : db[k].uses = Limit /\ given[k] = Limit

AllOneOn(sel) ==
    \A p \in Procs : /\ pc[p] = "done"
                     /\ call[p].kind = "one"
                     /\ call[p].req = sel
                     /\ out[p].status # "pg"

\* C3: NumProcs concurrent acquire_key calls against a single eligible key with
\* room for all of them, inside one minute and without backend failures, all
\* succeed and leave the key's counter exactly NumProcs higher.
C3_ConcurrentCountExact ==
    \A sel \in TxSelectors, k \in KeyIds :
        (/\ AllOneOn(sel)
         /\ clock < TicksPerMinute
         /\ Candidates(pre, sel, 0) = {k}
         /\ pre[k].uses + NumProcs <= Limit)
        => /\ \A p \in Procs : out[p] = RetOk(<<k>>)
           /\ db[k].uses = pre[k].uses + NumProcs

\* C3 witness: all calls hit the one key, one of them after a conflict.
C3_Witness ==
    \E sel \in TxSelectors, k \in KeyIds :
        /\ AllOneOn(sel)
        /\ clock < TicksPerMinute
        /\ Candidates(pre, sel, 0) = {k}
        /\ pre[k].uses + NumProcs <= Limit
        /\ db[k].uses = pre[k].uses + NumProcs
        /\ \E p \in Procs : retries[p] > 0

\* C4: an attempt that ends with SQLSTATE 40001 leaves nothing in the table,
\* and its call goes back to the top of the loop with the selector it had,
\* without returning anything.
C4_ConflictRetried ==
    [][\A p \in Procs :
          /\ (err'[p] = "40001" /\ err[p] # "40001") =>
                (db' = db /\ att'[p] = NoAttempt /\ pc'[p] = "failed")
          /\ (pc[p] = "failed" /\ err[p] = "40001" /\ pc'[p] # "failed") =>
                /\ pc'[p] = "begin"
                /\ call'[p] = call[p]
                /\ out'[p] = RetNone
                /\ db' = db]_vars

\* C4 witness: a bulk call has returned keys after absorbing a conflict.
C4_Witness ==
    \E p \in Procs : /\ retries[p] > 0
                     /\ call[p].kind = "many"
                     /\ out[p].status = "ok"

\* C5: an attempt that ends with any other error leaves the table unchanged,
\* and its call returns that error at once: no retry, and a returned call
\* stays returned.
C5_OtherErrorsReturned ==
    [][\A p \in Procs :
          /\ (err'[p] \notin {"none", "40001"} /\ err[p] = "none") =>
                (db' = db /\ pc'[p] = "failed")
          /\ (pc[p] = "failed" /\ err[p] # "40001" /\ pc'[p] # "failed") =>
                /\ pc'[p] = "done"
                /\ out'[p] = RetPg
                /\ retries'[p] = retries[p]
                /\ db' = db
          /\ pc[p] = "done" => (pc'[p] = "done" /\ out'[p] = out[p])]_vars

\* C5 witness: a call has returned a backend error while the other calls got
\* their keys, and only their keys are charged.
C5_Witness ==
    \E p \in Procs :
        /\ out[p].status = "pg"
        /\ retries[p] = 0
        /\ \A q \in Procs \ {p} : out[q].status = "ok"
        /\ \A k \in KeyIds : db[k].uses = pre[k].uses + given[k]

\* ------------------------------------------------------------ bulk claims
\* C8: the map execute_many returns has exactly one entry per submitted id: an
\* id left without a key has an explicit failure, and when acquire_many_keys
\* fails every id carries the storage error.
C8_OneResultPerRequest ==
    bpc = "returned" =>
        /\ ResultIds = 1..bcall.n
        /\ ~bcall.acquired => \A i \in 1..bcall.n : task[i].res = "storage"

\* ---------------------------------------------------- minute window claims
AcquireCall == last.op \in {"acquire_key", "acquire_many_keys"}

\* The call found exactly key k eligible for its selector.
OnlyCandidate(k) == Candidates(pre, last.sel, last.now) = {k}

\* Two instants of the same calendar minute.
SameMinute(a, b) == a \div TicksPerMinute = b \div TicksPerMinute

\* The key was handed out Limit times in the minute of the call.
UsedUp(k) == pre[k].uses = Limit /\ SameMinute(pre[k].last_used, last.now)

\* C11: a key used Limit times in the current calendar minute is neither
\* returned nor charged by a call in that minute, and acquire_key with only
\* such a key eligible and no fallback returns Unavailable and writes nothing;
\* once the key's last use lies in an earlier minute, acquire_key with only
\* that key eligible succeeds whatever the stored counter is and leaves it
\* at 1.
C11_MinuteWindow ==
    \A k \in KeyIds :
        /\ (AcquireCall /\ pre[k].present /\ UsedUp(k)) =>
              /\ Occurrences(last.ret.keys, k) = 0
              /\ db[k].uses = pre[k].uses
        /\ (last.op = "acquire_key" /\ OnlyCandidate(k) /\ UsedUp(k)
              /\ SelectorFallback(last.sel) = NoSel) =>
              (last.ret = RetUnavailable(last.sel) /\ db = pre)
        /\ (last.op = "acquire_key" /\ OnlyCandidate(k)
              /\ ~SameMinute(pre[k].last_used, last.now)) =>
              (last.ret = RetOk(<<k>>) /\ db[k].uses = 1)

\* C11 witness: the only eligible key was used up in an earlier minute and is
\* acquired again.
C11_Witness ==
    \E k \in KeyIds :
        /\ last.op = "acquire_key"
        /\ OnlyCandidate(k)
        /\ pre[k].uses = Limit
        /\ ~SameMinute(pre[k].last_used, last.now)
        /\ last.ret = RetOk(<<k>>)
        /\ db[k].uses = 1

\* ------------------------------------------------------------ health claims
\* The key is on a cooldown that has not expired at the time of the call.
CoolingDown(k) ==
    pre[k].present /\ pre[k].cooldown # NULL /\ last.now < pre[k].cooldown

\* The start of the minute after the one t lies in.
NextMinute(t) == ((t \div TicksPerMinute) + 1) * TicksPerMinute

\* C12: timeout_key(selector, d) at time t and flag_key with the rate-limit
\* code 5 put the key on cooldown until t + d (the next minute boundary for
\* code 5); no acquire_key or acquire_many_keys called before the cooldown's
\* end returns or changes the key; from the cooldown's end on acquire_key
\* returns the key again without any other call having been made for it.
C12_CooldownHolds ==
    /\ last.op = "timeout_key" =>
          \A k \in Matching(pre, last.sel) : db[k].cooldown = last.now + last.number
    /\ (last.op = "flag_key" /\ last.number = 5 /\ pre[last.sel.v].present) =>
          db[last.sel.v].cooldown = NextMinute(last.now)
    /\ AcquireCall =>
          \A k \in KeyIds : CoolingDown(k) =>
              (Occurrences(last.ret.keys, k) = 0 /\ db[k] = pre[k])
    /\ \A k \in KeyIds :
          (/\ last.op = "acquire_key"
           /\ Matching(pre, last.sel) = {k}
           /\ pre[k].cooldown # NULL
           /\ last.now >= pre[k].cooldown
           /\ ~UsedUp(k)) => last.ret = RetOk(<<k>>)

\* C12 witness: acquire_key returns a key at the very instant its cooldown
\* ends, the cooldown still being stored.
C12_Witness ==
    \E k \in KeyIds :
        /\ last.op = "acquire_key"
        /\ Matching(pre, last.sel) = {k}
        /\ pre[k].cooldown = last.now
        /\ pre[k].flag = 5
        /\ last.ret = RetOk(<<k>>)

HealthCall(op) ==
    /\ last.op = op
    /\ last.number \in {2, 10, 13}
    /\ pre[last.sel.v].present

Retired(row) == row.present /\ row.cooldown = Infinity /\ row.flag \in {2, 10, 13}

Elements(ds) == {ds[i] : i \in DOMAIN ds}

\* No element occurs twice.
DuplicateFree(ds) == \A i, j \in DOMAIN ds : i # j => ds[i] # ds[j]

\* A store_key call whose secret was already stored.
Upsert == last.op = "store_key" /\ \E k \in KeyIds : pre[k].present /\ pre[k].key = last.sel.v

Mutation ==
    last.op \in {"remove_key", "add_domain_to_key", "remove_domain_from_key",
                 "set_domains_for_key"}

\* C20: an administrative mutation whose selector matches no key fails with
\* KeyNotFound carrying that selector and leaves every key unchanged.
C20_NoMatchKeyNotFound ==
    (Mutation /\ Matching(pre, last.sel) = {}) =>
        (last.ret = RetKeyNotFound(last.sel) /\ db = pre)

\* C20 witness: add_domain_to_key by a domain selector no stored key
\* satisfies fails with KeyNotFound while keys are stored.
C20_Witness ==
    /\ last.op = "add_domain_to_key"
    /\ last.sel = SelHas(<<"User1">>)
    /\ Matching(pre, last.sel) = {}
    /\ \E k \in KeyIds : pre[k].present
    /\ last.ret = RetKeyNotFound(last.sel)
    /\ db = pre

\* ---------------------------------------------------- orchestrator claims
\* The request has just been given a key in a turn that follows a resolved
\* API error.
ResentAfterError == req.ev = "acquire" /\ req.cause = "api" /\ req.st = "send"

\* C14 as stated: after an API error whose hook reports retry the action has
\* changed the key that was used, the error is not returned, and the key of
\* the next turn is not the key that just failed.
C14_RetryWithOtherKey ==
    /\ (req.ev = "api" /\ req.st = "retry") =>
          (req.res = "none" /\ (pre[req.key].present => db[req.key] # pre[req.key]))
    /\ ResentAfterError => req.key # req.failed

\* C14 amended: the step that handles an API error whose hook reports retry
\* leaves the used key removed or on cooldown and returns nothing; the next
\* acquisition either fails, and the request ends with its storage error, or
\* yields a key that is the failed key only if that key's cooldown is over at
\* the time of the acquisition.
C14_RetryAfterAction ==
    [][/\ (req.st = "send" /\ req'.ev = "api" /\ req'.st = "retry") =>
            /\ req'.res = "none"
            /\ req'.failed = req.key
            /\ db[req.key].present =>
                  (~db'[req.key].present \/ ~CooldownOver(db'[req.key], clock))
       /\ (req.st = "retry" /\ req.cause = "api" /\ req'.st = "send") =>
            \/ req'.key # req.failed
            \/ db[req.failed].present /\ CooldownOver(db[req.failed], clock)
       /\ (req.st = "retry" /\ req.cause = "api" /\ req'.st = "done") =>
            req'.res \in {"unavailable", "pg"}]_vars

\* C14 witness: the second turn of a request whose first key was answered
\* with code 2 runs with another key.
C14_Witness ==
    /\ ResentAfterError
    /\ req.code = 2
    /\ req.turns = 2
    /\ req.failed # 0
    /\ req.key # req.failed
    /\ req.res = "none"

\* The code of the last API error has neither an action in flag_key nor a
\* registered hook.
Unhandled ==
    \/ req.via = "execute" /\ req.code \notin {2, 5, 8, 9, 10, 13, 14}
    \/ req.via = "execute_request" /\ ~(req.hooks /\ req.code \in {2, 5, 10, 13, 18})

\* C15: an API error whose code has no registered hook or no mapped action is
\* returned at once: the request is over with that error, every acquisition
\* it made was followed by a send, and no key has changed.
C15_UnhandledSurfaces ==
    (req.ev = "api" /\ Unhandled) =>
        /\ req.st = "done"
        /\ req.res = "api"
        /\ req.turns = req.sends
        /\ db = pre

\* C15 witness: execute returns the error of code 6 in the second turn of a
\* request and leaves the key it used as it was.
C15_Witness ==
    /\ req.ev = "api"
    /\ req.via = "execute"
    /\ req.code = 6
    /\ req.turns = 2
    /\ req.res = "api"
    /\ db[req.key].present
    /\ db[req.key].cooldown = NULL
    /\ db[req.key].flag = NULL

\* C16: a transport failure ends the request with that error: every
\* acquisition it made was followed by a send, and the key that was used is
\* neither removed nor given a cooldown or a flag.
C16_TransportTerminal ==
    /\ req.ev = "transport" =>
          /\ req.st = "done"
          /\ req.res = "client"
          /\ req.turns = req.sends
          /\ db = pre
    /\ req.res = "client" => req.ev = "transport"

\* C16 witness: the send of a request's second turn fails in the transport
\* and the key it used is stored without cooldown and flag.
C16_Witness ==
    /\ req.ev = "transport"
    /\ req.turns = 2
    /\ req.res = "client"
    /\ db[req.key].present
    /\ db[req.key].cooldown = NULL
    /\ db[req.key].flag = NULL

Failed == req.st = "done" /\ req.res # "ok"

\* flag_key or the registered hook reports retry for the last error code.
Resolved ==
    \/ req.via = "execute" /\ req.code \in {2, 5, 10, 13, 14}
    \/ req.via = "execute_request" /\ req.hooks /\ req.code \in {2, 5, 10, 13, 18}

\* C18 as stated: every error returned to the caller is Unavailable,
\* KeyNotFound, a storage error, a transport error or an API error no hook
\* resolved.
C18_ErrorKinds ==
    Failed =>
        /\ req.res \in {"unavailable", "keynotfound", "pg", "client", "api"}
        /\ req.res = "api" => ~Resolved

\* C18 amended: every error returned to the caller is Unavailable,
\* KeyNotFound, a storage error, a transport error, an API error that
\* flag_key or the registered hook did not resolve, or the error of an answer
\* that could not be decoded.
C18_ErrorKindsOrMalformed ==
    Failed =>
        /\ req.res \in {"unavailable", "keynotfound", "pg", "client", "api", "malformed"}
        /\ req.res = "api" => (req.ev = "api" /\ ~Resolved)
        /\ req.res = "malformed" => req.ev = "malformed"

\* C18 witness: a request ends with the error of an answer that could not be
\* decoded, after an earlier turn's API error was resolved.
C18_Witness ==
    /\ Failed
    /\ req.res = "malformed"
    /\ req.cause = "api"
    /\ req.turns = 2

\* ------------------------------------------------------ selection claims
\* A key matches a selector as the selector kinds are described: Has needs
\* every listed domain among the key's domains, OneOf at least one, Key, Id
\* and UserId equality.
Satisfies(k, row, sel) ==
    CASE sel.type = "Has" -> Elements(sel.ds) \subseteq Elements(row.domains)
      [] sel.type = "OneOf" -> Elements(sel.ds) \cap Elements(row.domains) # {}
      [] sel.type = "Key" -> row.key = sel.v
      [] sel.type = "Id" -> k = sel.v
      [] sel.type = "UserId" -> row.user_id = sel.v
      [] OTHER -> FALSE

\* The keys of table d that match the selector and whose cooldown is unset
\* or has expired at time now.
Eligible(d, sel, now) ==
    {k \in KeyIds : /\ d[k].present
                    /\ Satisfies(k, d[k], sel)
                    /\ (d[k].cooldown = NULL \/ d[k].cooldown <= now)}

\* A key's usage in the minute of now: its counter if it was last used in
\* that minute, 0 otherwise.
WindowUses(row, now) == IF SameMinute(row.last_used, now) THEN row.uses ELSE 0

\* The selector whose candidates a successful acquire_key(sel) chose from:
\* sel itself when one of its candidates is below the limit, else its
\* fallback.
ServedLevel(d, sel, now) ==
    IF \E j \in Eligible(d, sel, now) : WindowUses(d[j], now) < Limit
    THEN sel ELSE SelectorFallback(sel)

\* C24: the key acquire_key charges is a candidate, i.e. matches the
\* selector and has no unexpired cooldown, and no candidate has a smaller
\* effective usage.
C24_MinimalCandidate ==
    AcquiredOne =>
        LET k == last.ret.keys[1]
            C == Eligible(pre, ServedLevel(pre, last.sel, last.now), last.now)
        IN /\ k \in C
           /\ \A j \in C : WindowUses(pre[k], last.now) <= WindowUses(pre[j], last.now)
           /\ db[k].uses = WindowUses(pre[k], last.now) + 1

\* C24 witness: with two candidates of different usage and a third matching
\* key on cooldown, the less used candidate is charged.
C24_Witness ==
    /\ AcquiredOne
    /\ \E j \in Eligible(pre, last.sel, last.now) :
          WindowUses(pre[j], last.now) > WindowUses(pre[last.ret.keys[1]], last.now)
    /\ \E j \in KeyIds : /\ pre[j].present
                         /\ Satisfies(j, pre[j], last.sel)
                         /\ j \notin Eligible(pre, last.sel, last.now)

\* The positions of a domain list whose domain declares a fallback.
Declaring(ds) == {i \in DOMAIN ds : DomainFallback(ds[i]) # <<>>}

\* The n-th of these positions.
NthDeclaring(ds, n) ==
    CHOOSE i \in Declaring(ds) : Cardinality({j \in Declaring(ds) : j <= i}) = n

\* C27: KeySelector::fallback maps Has(ds) and OneOf(ds) to the same kind of
\* selector over the fallbacks of those domains of ds that declare one, in
\* their order, domains without a fallback being dropped; it yields none when
\* no domain of ds declares a fallback, and none for Key, Id and UserId.
C27_SelectorFallback ==
    last.op = "fallback" =>
        LET ds == last.sel.ds
            res == last.ret.sel
        IN /\ last.sel.type \in {"Key", "Id", "UserId"} => res = NoSel
           /\ (last.sel.type \in {"Has", "OneOf"} /\ Declaring(ds) = {}) => res = NoSel
           /\ (last.sel.type \in {"Has", "OneOf"} /\ Declaring(ds) # {}) =>
                 /\ res.type = last.sel.type
                 /\ Len(res.ds) = Cardinality(Declaring(ds))
                 /\ \A n \in 1..Len(res.ds) :
                       res.ds[n] = DomainFallback(ds[NthDeclaring(ds, n)])[1]

\* C27 witness: the fallback of Has([User1, Guild7]) is Has([All]): the
\* domain without a fallback is dropped.
C27_Witness ==
    /\ last.op = "fallback"
    /\ last.sel = SelHas(<<"User1", "Guild7">>)
    /\ last.ret.sel = SelHas(<<"All">>)

\* The eligible keys of table d matching sel whose usage in the minute of
\* now is below the limit.
WithCapacity(d, sel, now) ==
    {k \in Eligible(d, sel, now) : WindowUses(d[k], now) < Limit}

FallbackOnly(k, d, sel) ==
    /\ ~Satisfies(k, d[k], sel)
    /\ SelectorFallback(sel) # NoSel
    /\ Satisfies(k, d[k], SelectorFallback(sel))

Exhausted(d, sel, now) ==
    /\ SelectorFallback(sel) # NoSel
    /\ WithCapacity(d, sel, now) = {}
    /\ WithCapacity(d, SelectorFallback(sel), now) # {}

\* C28: acquire_key(sel) charges a key that matches only the fallback of sel
\* only if no eligible key matching sel has usage below the limit; and when
\* every key matching sel is on cooldown or at the limit while an eligible
\* key matching the fallback has capacity, the call succeeds with such a key.
C28_FallbackOnlyWhenExhausted ==
    last.op = "acquire_key" =>
        /\ (last.ret.status = "ok" /\ FallbackOnly(last.ret.keys[1], pre, last.sel)) =>
               WithCapacity(pre, last.sel, last.now) = {}
        /\ Exhausted(pre, last.sel, last.now) =>
               /\ last.ret.status = "ok"
               /\ last.ret.keys[1] \in WithCapacity(pre, SelectorFallback(last.sel), last.now)
               /\ db[last.ret.keys[1]].uses = WindowUses(pre[last.ret.keys[1]], last.now) + 1

\* C28 witness: a key matching the selector exists, is eligible and is at
\* the limit, and a key matching only the fallback is charged.
C28_Witness ==
    /\ last.op = "acquire_key"
    /\ Exhausted(pre, last.sel, last.now)
    /\ \E j \in Eligible(pre, last.sel, last.now) : WindowUses(pre[j], last.now) = Limit
    /\ last.ret.status = "ok"
    /\ FallbackOnly(last.ret.keys[1], pre, last.sel)

\* ------------------------------------------------- bulk accounting claims
\* Call p of acquire_many_keys returns in this step with its keys.
BulkReturns(p) ==
    /\ call[p].kind = "many"
    /\ pc[p] = "written"
    /\ pc'[p] = "done"

\* The step in which acquire_many_keys returns R is the step in which its
\* single UPDATE becomes visible, and it raises each key's effective usage
\* by the number of its occurrences in R.
BatchWrite ==
    \A p \in Procs :
        BulkReturns(p) =>
            \A k \in KeyIds :
                EffUses(db'[k], txnow[p]) =
                    EffUses(db[k], txnow[p]) + Occurrences(out'[p].keys, k)

\* Every call was acquire_many_keys(sel, n) and has returned keys, all within
\* the first minute, and k is the only key sel admits.
AllBulkOn(k, sel, n) ==
    /\ clock < TicksPerMinute
    /\ Candidates(pre, sel, 0) = {k}
    /\ \A p \in Procs : /\ pc[p] = "done"
                        /\ call[p].kind = "many"
                        /\ call[p].req = sel
                        /\ call[p].number = n
                        /\ out[p].status = "ok"

\* C26: when acquire_many_keys returns R, each key's effective usage has
\* grown by its occurrences in R, written in one batch; and K concurrent
\* bulk acquisitions of n keys each against a single key with K * n <= Limit
\* leave that key's counter at K * n.
C26_BulkAccounting ==
    /\ [][BatchWrite]_vars
    /\ [](\A k \in KeyIds, sel \in TxSelectors, n \in 1..MaxNumber :
            (AllBulkOn(k, sel, n) /\ NumProcs * n <= Limit) =>
                db[k].uses = pre[k].uses + NumProcs * n)

\* C26 witness: all concurrent bulk calls on one key have returned, one of
\* them after a conflict, and together they filled the key to the limit.
C26_Witness ==
    /\ \E k \in KeyIds, sel \in TxSelectors, n \in 1..MaxNumber :
          /\ AllBulkOn(k, sel, n)
          /\ NumProcs * n = Limit
          /\ db[k].uses = Limit
          /\ \A p \in Procs : out[p].keys = Repeat(k, n)
    /\ \E p \in Procs : retries[p] > 0

\* ------------------------------------------------------------ spread claims
\* The keys the repeated calls choose from, and the calls that have
\* returned a key so far.
SpreadKeys == Candidates(pre, SpreadSelector, 0)

RECURSIVE GivenIn(_)
GivenIn(S) ==
    IF S = {} THEN 0
    ELSE LET k == CHOOSE x \in S : TRUE IN given[k] + GivenIn(S \ {k})

Successes == GivenIn(KeyIds)

\* C25: starting from M eligible keys of equal usage, in every interleaving
\* of sequential and concurrent acquire_key calls within one minute, the
\* usages of any two of the keys differ by at most 1, and after c * M
\* successful calls every key's usage has grown by exactly c.
C25_EvenSpread ==
    /\ \A j, k \in SpreadKeys : db[j].uses - db[k].uses <= 1
    /\ \A c \in 0..Limit :
          Successes = c * Cardinality(SpreadKeys) =>
              \A k \in SpreadKeys : db[k].uses = pre[k].uses + c

\* C25 witness: on two keys that started unused, four calls have succeeded,
\* one of them after a conflict with a concurrent call, and both keys
\* stand at 2.
C25_Witness ==
    /\ Cardinality(SpreadKeys) = 2
    /\ Successes = 4
    /\ \A k \in SpreadKeys : pre[k].uses = 0 /\ db[k].uses = 2
    /\ \E p \in Procs : retries[p] > 0 /\ out[p].status = "ok"

\* ------------------------------------------------ error policy claims
\* The API error of the given code was just handled for the key in use, and
\* the storage call made for it did not fail.
Handled(code) == req.ev = "api" /\ req.code = code /\ req.res # "pg"

\* C29: under the default error policy, code 5 puts the key used on cooldown
\* until the next minute boundary and the daily-quota code (14) until the
\* next day boundary, and in both cases the request is retried with another
\* key.
C29_DefaultPolicy ==
    /\ Handled(5) =>
          /\ db[req.key].cooldown = TruncMinute(clock) + TicksPerMinute
          /\ req.st = "retry"
    /\ Handled(14) =>
          /\ db[req.key].cooldown = TruncDay(clock) + TicksPerDay
          /\ req.st = "retry"
    /\ (req.ev = "acquire" /\ req.cause = "api" /\ req.st = "send") =>
          req.key # req.failed

\* ------------------------------------------------------------- hook claims
\* C30: the pre-request hook registered for a request's category runs before
\* each send of the request, the sends repeated after a retry included, for
\* bulk requests as for single ones: no send goes out that the hook did not
\* run before, and none with a request the hook never ran on.
C30_HookBeforeEachSend ==
    wire.reg => (~wire.skipped /\ ~wire.bare)

\* ------------------------------------------------------- charge claims
\* In this step no key that exists before and after it loses effective usage,
\* unless the step crosses a minute boundary.
NoRefund ==
    SameMinute(clock, clock') =>
        \A k \in KeyIds :
            (db[k].present /\ db'[k].present) =>
                EffUses(db'[k], clock') >= EffUses(db[k], clock)

\* C23: the usage charged by a committed acquisition is never undone: no
\* step of the orchestrator (success, upstream error, transport error,
\* retry asked for by a hook, the caller abandoning the request) lowers a
\* key's usage counter, so within one minute a key's effective usage never
\* decreases.
C23_ChargeStands == [][NoRefund]_vars

\* C23 witness: the caller abandoned the request after a retry, and the
\* key acquired last and the key that failed before it both still carry
\* their charge.
C23_Witness ==
    /\ req.res = "abandoned"
    /\ req.turns = 2
    /\ req.key # req.failed
    /\ db[req.key].present /\ EffUses(db[req.key], clock) >= 1
    /\ db[req.failed].present /\ EffUses(db[req.failed], clock) >= 1

\* ------------------------------------------------------ termination claims
\* C22: acquire_key and acquire_many_keys terminate for every fallback
\* relation of the domain type, one in which a domain is directly or
\* transitively its own fallback included, and return keys or Unavailable.
C22_Terminates ==
    /\ (chain.st \in {"begin", "open"}) ~> (chain.st = "done")
    /\ [](chain.st = "done" => chain.ret.status \in {"ok", "unavailable"})

\* ------------------------------------------------------- throttle claims
\* The request the buffer starts in this step, if any.
Dispatched == sched'.next = sched.next + 1 /\ sched.st = "running"

\* C21: in throttled bulk execution the requests of a batch are dispatched
\* in input order, two consecutive dispatches at least the configured
\* distance apart, with at most MaxInFlight requests in flight at any time,
\* and every request of the batch yields exactly one result.
C21_Throttled ==
    /\ [][Dispatched =>
            /\ \A j \in Ids : (sched.flight[j] # 0 \/ sched.results[j] > 0) => j < sched.next
            /\ \A j \in Ids : j > sched.next => (sched'.flight[j] = 0 /\ sched'.results[j] = 0)
            /\ sched'.flight[sched.next] # 0 \/ sched'.results[sched.next] = 1
            /\ sched.lastAt # NULL => clock >= sched.lastAt + sched.distance]_vars
    /\ [](Cardinality(InFlight(sched)) <= MaxInFlight)
    /\ [](\A i \in Ids : sched.results[i] <= 1)
    /\ [](sched.st = "done" =>
            \A i \in Ids : sched.results[i] = IF i <= sched.n THEN 1 ELSE 0)

\* C21 witness: a batch of three requests with distance 1 has ended, the
\* last request was dispatched two ticks after the first, and each request
\* has its one result.
C21_Witness ==
    /\ sched.st = "done"
    /\ sched.n = 3
    /\ sched.distance = 1
    /\ sched.lastAt = 2
    /\ \A i \in 1..3 : sched.results[i] = 1

\* ------------------------------------------------------- domain set claims
\* C31: after any sequence of store_key, add_domain_to_key,
\* remove_domain_from_key and set_domains_for_key calls with arbitrary domain
\* lists, no stored key carries the same domain twice.
C31_NoDuplicateDomains ==
    \A k \in KeyIds : db[k].present => DuplicateFree(db[k].domains)

\* --------------------------------------------- domain calls in succession
\* remove_domain_from_key called on the result of a completed
\* add_domain_to_key, as in test_remove_domain: pre stays the table before
\* the add, and the completed add is kept in the field after.
ThenRemoveDomainFromKey(sel, domain) ==
    /\ last.op = "add_domain_to_key"
    /\ \E o \in RemoveDomainFromKey(db, sel, domain) :
        /\ db' = o.db
        /\ last' = [op |-> "remove_domain_from_key", sel |-> sel, number |-> 0,
                    now |-> clock, ret |-> o.ret, proc |-> 0, domains |-> <<domain>>,
                    after |-> last]
    /\ UNCHANGED <<pre, clock, txVars, bulkVars, execVars, sideVars>>

NextTrip ==
    \/ \E sel \in AdminSelectors, d \in AdminDomains : AddDomainToKeyCall(sel, d)
    \/ \E sel \in AdminSelectors, d \in AdminDomains : RemoveDomainFromKeyCall(sel, d)
    \/ \E d \in AdminDomains : ThenRemoveDomainFromKey(last.sel, d)
    \/ \E sel \in AdminSelectors, ds \in AdminDomainLists : SetDomainsForKeyCall(sel, ds)
    \/ Return

\* Domain calls of the storage, a removal possibly right after an addition.
SpecTrip == InitAdmin /\ [][NextTrip]_vars

\* A successful add_domain_to_key.
Added == last.op = "add_domain_to_key" /\ last.ret.status = "ok"

\* A successful remove_domain_from_key, after a Return or after an addition.
Removed == last.op = "remove_domain_from_key" /\ last.ret.status = "ok"

AfterAddition == "after" \in DOMAIN last

\* remove_domain_from_key of the domain a successful add_domain_to_key added
\* to a key that did not have it, returning that key.
RoundTrip ==
    /\ Removed
    /\ AfterAddition
    /\ last.after.ret = last.ret
    /\ last.after.domains = last.domains
    /\ ~Contains(pre[last.ret.keys[1]].domains, last.domains[1])

\* C32: add_domain_to_key of a domain the key has leaves its domain set
\* unchanged; remove_domain_from_key after add_domain_to_key of a domain the
\* key did not have restores the original domain set; and removing a key's
\* last domain succeeds and leaves the key stored with no domains.
C32_DomainAlgebra ==
    /\ Added =>
          LET k == last.ret.keys[1]
          IN /\ Contains(db[k].domains, last.domains[1])
             /\ Contains(pre[k].domains, last.domains[1]) =>
                   Elements(db[k].domains) = Elements(pre[k].domains)
    /\ RoundTrip =>
          Elements(db[last.ret.keys[1]].domains) = Elements(pre[last.ret.keys[1]].domains)
    /\ (last.op = "remove_domain_from_key" /\ ~AfterAddition) =>
          /\ Matching(pre, last.sel) # {} => last.ret.status = "ok"
          /\ \A k \in Matching(pre, last.sel) :
                Elements(pre[k].domains) = {last.domains[1]} =>
                    (db[k].present /\ db[k].domains = <<>>)

\* C32 witness: User1 is added to a key that has only All and removed again
\* by the same selector, which leaves the key with All alone.
C32_Witness ==
    /\ RoundTrip
    /\ last.sel = last.after.sel
    /\ last.domains = <<"User1">>
    /\ pre[last.ret.keys[1]].domains = <<"All">>
    /\ db[last.ret.keys[1]].domains = <<"All">>

\* --------------------------------------------------------- frame claims
\* C38: a successful remove_key removes the key it returns and no other, and
\* a successful add_domain_to_key, remove_domain_from_key or
\* set_domains_for_key changes no key but the one it returns, whatever number
\* of keys the selector matches.
C38_OnlyReturnedKeyChanges ==
    (Mutation /\ last.ret.status = "ok") =>
        LET k == last.ret.keys[1]
        IN /\ last.op = "remove_key" => ~db[k].present
           /\ last.op # "remove_key" => db[k].present
           /\ \A j \in KeyIds \ {k} : db[j] = pre[j]

\* ------------------------------------------------------ Unavailable claims
\* The selectors a call tries: the requested one and its fallbacks in turn.
RECURSIVE FallbackChain(_)
FallbackChain(sel) ==
    IF SelectorFallback(sel) = NoSel THEN <<sel>>
    ELSE <<sel>> \o FallbackChain(SelectorFallback(sel))

\* The first selector of the chain that an eligible key matches, if any.
FirstEligible(d, sel, now) ==
    LET c == FallbackChain(sel)
        hits == {i \in DOMAIN c : Eligible(d, c[i], now) # {}}
    IN IF hits = {} THEN NoSel ELSE c[CHOOSE i \in hits : \A j \in hits : i <= j]

BulkAcquire == last.op = "acquire_many_keys"

\* C33: acquire_many_keys fails with Unavailable exactly when no eligible
\* key matches the selector or a selector of its fallback chain; when
\* eligible keys match the selector and every one of them is at the limit, it
\* returns an empty list and does not go on to the fallback.
C33_UnavailableIffNoneEligible ==
    BulkAcquire =>
        /\ last.ret.status \in {"ok", "unavailable"}
        /\ last.ret.status = "unavailable" <=> FirstEligible(pre, last.sel, last.now) = NoSel
        /\ (/\ Eligible(pre, last.sel, last.now) # {}
            /\ WithCapacity(pre, last.sel, last.now) = {}) => last.ret = RetOk(<<>>)

\* C33 witness: one key is requested by the guild's selector, the guild's key
\* is eligible and at the limit, a key carrying All has capacity, and the
\* call returns an empty list.
C33_Witness ==
    /\ BulkAcquire
    /\ last.sel = SelHas(<<"Guild7">>)
    /\ last.number >= 1
    /\ Eligible(pre, last.sel, last.now) # {}
    /\ WithCapacity(pre, last.sel, last.now) = {}
    /\ WithCapacity(pre, SelectorFallback(last.sel), last.now) # {}
    /\ last.ret = RetOk(<<>>)

\* A call of acquire_key or acquire_many_keys that failed with Unavailable.
FailedUnavailable ==
    /\ last.op \in {"acquire_key", "acquire_many_keys"}
    /\ last.ret.status = "unavailable"

\* C34: the Unavailable error of acquire_key and acquire_many_keys carries
\* the last selector of the fallback chain, the one without a fallback; it is
\* the requested selector only when that one has no fallback.
C34_UnavailableNamesLast ==
    FailedUnavailable =>
        LET c == FallbackChain(last.sel)
        IN /\ last.ret.sel = c[Len(c)]
           /\ SelectorFallback(last.ret.sel) = NoSel
           /\ last.ret.sel = last.sel <=> SelectorFallback(last.sel) = NoSel

\* C34 witness: acquire_many_keys by the guild's selector fails, and the
\* error carries the selector for All.
C34_Witness ==
    /\ FailedUnavailable
    /\ last.op = "acquire_many_keys"
    /\ last.sel = SelHas(<<"Guild7">>)
    /\ last.ret.sel = SelHas(<<"All">>)

\* ------------------------------------------------------ invalidated keys
\* Ids of the keys flag_key has invalidated, codes it did so with, ids and
\* codes of the later flag_key calls, and selectors of the acquisitions.
InvalidIds == {2}
FlaggedIds == {1, 2}
InvalidCodes == {2, 13}
LaterCodes == {5, 8, 9}
InvalidSelectors == {SelHas(<<"All">>), SelId(2)}

\* Tables in which flag_key(key, code) with an invalidating code has been
\* called at time 0 for the keys of InvalidIds.
InvalidTables ==
    {[k \in KeyIds |-> IF k \in InvalidIds THEN FlagKey(t, k, code, 0).db[k] ELSE t[k]] :
        t \in TxTables, code \in InvalidCodes}

InitInvalid ==
    /\ db \in InvalidTables
    /\ clock = 0
    /\ pre = db
    /\ last = NoOp
    /\ TxIdle

NextInvalid ==
    \/ \E sel \in InvalidSelectors : AcquireKey(sel)
    \/ \E sel \in InvalidSelectors, number \in {2} : AcquireManyKeys(sel, number)
    \/ \E id \in FlaggedIds, code \in LaterCodes : FlagKeyCall(id, code)
    \/ \E u \in AdminUsers, s \in InvalidIds, ds \in {<<"All">>} : StoreKeyCall(u, s, ds)
    \/ \E id \in InvalidIds, d \in {"User1"} : AddDomainToKeyCall(SelId(id), d)
    \/ \E id \in InvalidIds, d \in {"All"} : RemoveDomainFromKeyCall(SelId(id), d)
    \/ Return
    \/ Tick

\* Storage calls after keys have been invalidated, while time passes.
SpecInvalid == InitInvalid /\ [][NextInvalid]_vars

\* C36: a key invalidated by flag_key with code 2, 10 or 13 is not returned
\* by acquire_key or acquire_many_keys afterwards, whatever flag_key calls
\* with other codes, store_key calls with its secret and domain mutations
\* follow and however much time passes.
C36_InvalidNeverReturned ==
    (last.op \in {"acquire_key", "acquire_many_keys"} /\ last.ret.status = "ok") =>
        \A i \in DOMAIN last.ret.keys : last.ret.keys[i] \notin InvalidIds

\* ------------------------------------------------- concurrent deletions
\* The request's answer was mapped to deleting its key: an API error with
\* code 2 or 10 under the default hooks, or a post-response hook returning
\* Delete.
DeletionMapped ==
    \/ /\ req.ev = "api"
       /\ req.via = "execute_request"
       /\ req.hooks
       /\ req.code \in {2, 10}
    \/ /\ req.ev = "after"
       /\ req.act.act = "Delete"

\* The key the request held had been removed by another pipeline before the
\* request's own deletion ran.
RemovedByOther == req.key # 0 /\ ~pre[req.key].present

\* C37: when the key of a request has been deleted by another pipeline
\* holding it, the request's own deletion of the key surfaces no KeyNotFound
\* or other error, and the request goes on to acquire again.
C37_SecondDeletionRetries ==
    (DeletionMapped /\ RemovedByOther /\ req.res # "pg") =>
        (req.st = "retry" /\ req.res = "none")

\* ------------------------------------------- requests answered with errors
\* Error codes of the answers, all of which flag_key and the default hooks
\* answer with a retry, and a code a hook registered with error_hook answers
\* with a retry without a storage call.
StormCodes == {2, 5}
CustomCodes == {6}

\* Selectors of the requests.
StormSelectors == {SelHas(<<"All">>), SelHas(<<"Guild7">>), SelId(1)}

\* Tables of unused keys, key 2 possibly used once in the current minute.
StormTables ==
    {[t EXCEPT ![2].uses = u] : t \in TxTables, u \in {0, 1}}

\* Turns of the loop after which no key can have capacity left.
StormTurns == NumKeys * Limit + 1

\* The keys reachable through a selector and its fallbacks: those an
\* acquisition along the chain can choose from.
Reachable(d, sel, now) ==
    UNION {Candidates(d, FallbackChain(sel)[i], now) : i \in DOMAIN FallbackChain(sel)}

\* The request is submitted to a pool with hooks: the first turn of the loop
\* up to its send; last keeps the capacity reachable at that time.
Submit(via, sel) ==
    /\ req.st = "idle"
    /\ \E o \in Acquire(db, "one", sel, 0, clock) \cup {PgFailure(db)} :
        /\ db' = o.db
        /\ req' = AfterAcquire([NoReq EXCEPT !.via = via, !.sel = sel, !.hooks = TRUE], o.ret)
        /\ wire' = LET w == RunHookBefore([NoWire EXCEPT !.reg = (via = "execute")])
                   IN IF o.ret.status = "ok" THEN SendUrl(w) ELSE w
        /\ last' = Done("execute", sel, Room(db, Reachable(db, sel, clock), clock), o.ret)
    /\ pre' = db
    /\ UNCHANGED <<clock, txVars, bulkVars, chain, sched>>

\* A later turn of the loop up to its send.
Retry ==
    /\ req.st = "retry"
    /\ req.turns < StormTurns
    /\ \E o \in Acquire(db, "one", req.sel, 0, clock) \cup {PgFailure(db)} :
        /\ db' = o.db
        /\ req' = AfterAcquire(req, o.ret)
        /\ wire' = IF o.ret.status = "ok" THEN SendUrl(wire) ELSE wire
    /\ pre' = db
    /\ UNCHANGED <<clock, last, txVars, bulkVars, chain, sched>>

\* The answer is an API error for which a hook registered with error_hook
\* returns Ok(true) without a storage call.
HookRetries(code) ==
    /\ req.st = "send"
    /\ req.via = "execute_request"
    /\ req' = AfterError(req, code, RetFlag(TRUE))
    /\ pre' = db
    /\ UNCHANGED <<db, clock, last, txVars, bulkVars, sideVars>>

Answer ==
    \/ \E code \in StormCodes : UpstreamError(code)
    \/ \E code \in CustomCodes : HookRetries(code)

NextStorm ==
    \/ \E via \in Orchestrators, sel \in StormSelectors : Submit(via, sel)
    \/ Retry
    \/ Answer

InitStorm ==
    /\ db \in StormTables
    /\ clock = 0
    /\ pre = db
    /\ last = NoOp
    /\ TxIdle

\* One request within one minute, every send of which is answered with an
\* error that is retried.
SpecStorm == InitStorm /\ [][NextStorm]_vars

\* The loop runs on and every send is answered.
SpecStormFair == SpecStorm /\ WF_vars(Retry) /\ WF_vars(Answer)

\* Sends the request has performed: those answered and the one in flight.
Sends == req.sends + IF req.st = "send" THEN 1 ELSE 0

\* C39: a request whose every send is answered with an error that is
\* retried, within one minute and with no cooldown expiring, performs at most
\* as many sends as the keys reachable through its selector and fallbacks had
\* capacity left, and then returns Unavailable (or a failure of the backend).
C39_StormEnds ==
    /\ [](req.st # "idle" => Sends <= last.number)
    /\ [](req.st = "done" => req.res \in {"unavailable", "pg"})
    /\ (req.st \in {"send", "retry"}) ~> (req.st = "done")

\* C39 witness: a request by the guild's selector has used up the guild's
\* key and the key carrying All in four sends and returned Unavailable.
C39_Witness ==
    /\ req.st = "done"
    /\ req.res = "unavailable"
    /\ req.sel = SelHas(<<"Guild7">>)
    /\ last.number = 2 * Limit
    /\ req.sends = last.number

\* ------------------------------------------- calls that run to their end
\* A step of a call's loop or of the backend on its behalf.
Proceed(p) ==
    \/ Begin(p)
    \/ Select(p)
    \/ Write(p)
    \/ Commit(p)
    \/ CommitNone(p)
    \/ HandleError(p)

NextQuiet ==
    \/ \E p \in Procs, sel \in TxSelectors : Call(p, "one", sel, 0)
    \/ \E p \in Procs, sel \in TxSelectors, number \in 1..Limit : Call(p, "many", sel, number)
    \/ \E p \in Procs : Proceed(p)

\* Concurrent storage calls within one tick on a backend that reports no
\* failure but serialization conflicts.
SpecQuiet == InitTx /\ [][NextQuiet]_vars

\* Every call is driven on by its task and answered by the backend.
SpecQuietFair == SpecQuiet /\ \A p \in Procs : WF_vars(Proceed(p))

Running(p) == pc[p] \in {"begin", "open", "read", "written", "failed"}

\* C35: of finitely many concurrent acquire_key and acquire_many_keys calls
\* on a backend that reports no failure but serialization conflicts, every
\* one eventually returns keys or Unavailable.
C35_EveryCallReturns ==
    \A p \in Procs :
        Running(p) ~> (pc[p] = "done" /\ out[p].status \in {"ok", "unavailable"})

\* C35 witness: both calls have returned keys, one of them after a conflict.
C35_Witness ==
    /\ \A p \in Procs : pc[p] = "done" /\ out[p].status = "ok"
    /\ \E p \in Procs : retries[p] >= 1

====
